---- MODULE Spec2Model ----
(***************************************************************************)
(* All-pairs shortest paths on a dense directed graph: the serial, the     *)
(* naive-parallel and the blocked-parallel Floyd-Warshall kernels of       *)
(* kernels.cpp, and the random graph generator of graph.cpp.               *)
(*                                                                         *)
(* A DenseGraph is a flat array of n*n ints, entry (i,j) at offset i*n+j;  *)
(* it is modelled as a function on 0..n*n-1.  OpenMP worksharing regions   *)
(* are modelled by one step per unit of work of a thread, with an explicit *)
(* step for the barrier that ends the region.                              *)
(***************************************************************************)
EXTENDS Integers, Sequences, FiniteSets, TLC

\* ---------------------------------------------------------------- bounds
\* Largest vertex count of the engine runs.
MaxN == 3
\* Largest worker-thread count handed to the OpenMP runtime.
MaxThreads == 2
\* Largest vertex count of the blocked engine's runs on unit-weight graphs.
MaxTiledN == 4
\* Largest number of blocks per dimension in those runs.
MaxBlocks == 3
\* Largest vertex count handed to the generator.
MaxV == 3
\* How far the requested edge count may exceed vertices * (vertices - 1).
MaxExcess == 1
\* Vertex count of the blocked engine's runs with several blocks of several
\* vertices each, and the largest edge count of their graphs.
TiledN == 6
MaxTiledEdges == 3
\* Largest edge count main is run with when the count is feasible.
MaxMainEdges == 2
\* Vertex count of the blocked engine's runs with a block size that does not
\* divide it, and the edge count of their graphs.
RaggedN == 5
RaggedEdges == 3

\* ------------------------------------------------------------- constants
\* globals.h: the sentinel "no path known"; 2*INF fits the int type.
INF == 99999
\* Largest value of int.
IntMax == 2147483647

VARIABLES
    pc,          \* "run", "done" (engines); "gen_entry", "gen_loop", "gen_done";
                 \* "main" while main itself is executing
    engine,      \* "serial", "naive", "blocked"
    vertices,    \* n
    tile_length, \* b
    threads,     \* size of the OpenMP team
    input,       \* the matrix the engine was called with
    graph,       \* the matrix being relaxed in place
    k,           \* outer index (vertex for serial/naive, block for blocked)
    phase,       \* "serial", "naive", "diag", "row", "col", "upd"
    tpos,        \* per thread / per task: units of work completed
    tbuf,        \* per task: the task's private result block, when loaded
    Wkk,         \* blocked: the refreshed diagonal block of this k
    run,         \* 1 for the first call, 2 for the call on its own output
    edges,       \* generator: the requested number of edges
    edge,        \* generator: the vector of candidate edges
    gi,          \* generator: the index i of the while loop
    ret,         \* generator: the value returned
    mpc,         \* main: "parse", "configure", "mode", "generate",
                 \*       "generating", "engines", "naive", "blocked",
                 \*       "report", "exited"; "none" outside main
    args,        \* main: the command line: the flags, the requested thread
                 \*       count, and what the parse makes of it
    max_threads, \* main: omp_get_max_threads()
    omp_calls,   \* main: the arguments of the calls of omp_set_num_threads
    timestamps,  \* main: the labels handed to mark_time, in order
    exit_status  \* main: the value returned by main, once mpc = "exited"

\* The state of main.
mainVars == <<mpc, args, max_threads, omp_calls, timestamps, exit_status>>

\* What the engines leave alone.
genVars == <<edges, edge, gi, ret, mainVars>>

\* What the generator leaves alone.
engineVars == <<engine, tile_length, threads, input, k, phase, tpos, tbuf, Wkk, run,
               mainVars>>

vars == <<pc, engine, vertices, tile_length, threads, input, graph, k, phase,
          tpos, tbuf, Wkk, run, edges, edge, gi, ret,
          mpc, args, max_threads, omp_calls, timestamps, exit_status>>

\* ----------------------------------------------------------- arithmetic
\* std::max written for std::min.
MinTakesLarger(a, b) == a < b

\* std::min(a, b) returns its second argument exactly when b < a.
MinTakes(a, b) == b < a

\* int addition, wrapping at the int width (two's complement).
IntAdd(a, b) ==
    IF b >= 0 /\ a > IntMax - b THEN (a - IntMax - 1) + (b - IntMax - 1)
    ELSE IF b < 0 /\ a < (-IntMax - 1) - b THEN (a + IntMax + 1) + (b + IntMax + 1)
    ELSE a + b

\* ------------------------------------------------------------- kernels
block_idx(i, j, b) == i * b + j

NoBlock == <<>>

\* floyd(C, A, B, b): the block relaxation.  aliasA / aliasB say that the
\* argument A / B is the same vector as C (the diagonal phase passes Wkk
\* three times), so its reads see the writes made so far.
\* floydSweep is the loops over j and i for one kk, from step s on;
\* C[c_idx] = std::min(C[c_idx], sum) changes C exactly when sum < C[c_idx].
RECURSIVE floydSweep(_, _, _, _, _, _, _, _)
floydSweep(C, A, B, b, aliasA, aliasB, kk, s) ==
    IF s >= b * b THEN C
    ELSE LET j == s \div b
             i == s % b
             c_idx == block_idx(i, j, b)
             a_idx == block_idx(i, kk, b)
             b_idx == block_idx(kk, j, b)
             av == IF aliasA THEN C[a_idx] ELSE A[a_idx]
             bv == IF aliasB THEN C[b_idx] ELSE B[b_idx]
         IN  IF av # INF /\ bv # INF /\ MinTakes(C[c_idx], IntAdd(av, bv))
             THEN floydSweep([C EXCEPT ![c_idx] = IntAdd(av, bv)],
                             A, B, b, aliasA, aliasB, kk, s + 1)
             ELSE floydSweep(C, A, B, b, aliasA, aliasB, kk, s + 1)

\* The loop over kk stopping one short.
RECURSIVE floydFromShort(_, _, _, _, _, _, _)
floydFromShort(C, A, B, b, aliasA, aliasB, kk) ==
    IF kk >= b - 1 THEN C
    ELSE floydFromShort(floydSweep(C, A, B, b, aliasA, aliasB, kk, 0),
                        A, B, b, aliasA, aliasB, kk + 1)

RECURSIVE floydFrom(_, _, _, _, _, _, _)
floydFrom(C, A, B, b, aliasA, aliasB, kk) ==
    IF kk >= b THEN C
    ELSE floydFrom(floydSweep(C, A, B, b, aliasA, aliasB, kk, 0),
                   A, B, b, aliasA, aliasB, kk + 1)

floyd(C, A, B, b, aliasA, aliasB) == floydFrom(C, A, B, b, aliasA, aliasB, 0)

\* The copy loops of blocked_floyd_warshall: block (I,J) of W into a b*b
\* vector, and back.
ReadBlock(W, n, b, I, J) ==
    [p \in 0..(b * b - 1) |->
        W[block_idx(I * b + (p \div b), J * b + (p % b), n)]]

WriteBlock(W, n, b, I, J, blk) ==
    [p \in DOMAIN W |->
        LET r == p \div n
            c == p % n
        IN  IF r \div b = I /\ c \div b = J
            THEN blk[block_idx(r - I * b, c - J * b, b)]
            ELSE W[p]]

\* The diagonal block copied without the call of floyd.
DiagBlockNoRelax(W, n, b, K) == ReadBlock(W, n, b, K, K)

\* The diagonal block relaxed against an unmodified copy of itself.
DiagBlockSnapshot(W, n, b, K) ==
    LET blk == ReadBlock(W, n, b, K, K)
    IN  floyd(blk, blk, blk, b, FALSE, FALSE)

\* Dependent phase: the refreshed diagonal block.
DiagBlock(W, n, b, K) ==
    LET blk == ReadBlock(W, n, b, K, K)
    IN  floyd(blk, blk, blk, b, TRUE, TRUE)

\* The row block copied and written back without the call of floyd.
RowBlockNoRelax(W, n, b, K, J, wkk) == ReadBlock(W, n, b, K, J)

\* Partially dependent phase, row block (K,J): floyd(Wkj_tmp, Wkk, Wkj, b).
RowBlock(W, n, b, K, J, wkk) ==
    LET Wkj == ReadBlock(W, n, b, K, J)
    IN  floyd(Wkj, wkk, Wkj, b, FALSE, FALSE)

\* The column block copied and written back without the call of floyd.
ColBlockNoRelax(W, n, b, K, I, wkk) == ReadBlock(W, n, b, I, K)

\* The column block relaxed with the operands of a row block:
\* floyd(Wik_tmp, Wkk, Wik, b).
ColBlockRowOperands(W, n, b, K, I, wkk) ==
    LET Wik == ReadBlock(W, n, b, I, K)
    IN  floyd(Wik, wkk, Wik, b, FALSE, FALSE)

\* Partially dependent phase, column block (I,K): floyd(Wik_tmp, Wik, Wkk, b).
ColBlock(W, n, b, K, I, wkk) ==
    LET Wik == ReadBlock(W, n, b, I, K)
    IN  floyd(Wik, Wik, wkk, b, FALSE, FALSE)

\* The operands of the independent phase exchanged.
UpdBlockSwapped(W, n, b, K, I, J) ==
    floyd(ReadBlock(W, n, b, I, J), ReadBlock(W, n, b, K, J),
          ReadBlock(W, n, b, I, K), b, FALSE, FALSE)

\* Independent phase, block (I,J): floyd(Wij, Wik, Wkj, b).
UpdBlock(W, n, b, K, I, J) ==
    floyd(ReadBlock(W, n, b, I, J), ReadBlock(W, n, b, I, K),
          ReadBlock(W, n, b, K, J), b, FALSE, FALSE)

\* The second operand read at (j,kk) for (kk,j).
SerialRelaxTransposed(g, n, kk, i, j) ==
    IF /\ g[i * n + j] > IntAdd(g[i * n + kk], g[j * n + kk])
       /\ g[j * n + kk] # INF
       /\ g[i * n + kk] # INF
    THEN [g EXCEPT ![i * n + j] = IntAdd(g[i * n + kk], g[j * n + kk])]
    ELSE g

\* The update without the comparison: the sum of two finite operands is
\* stored whatever the entry holds.
SerialRelaxNoCompare(g, n, kk, i, j) ==
    IF /\ g[kk * n + j] # INF
       /\ g[i * n + kk] # INF
    THEN [g EXCEPT ![i * n + j] = IntAdd(g[i * n + kk], g[kk * n + j])]
    ELSE g

\* One (i,j) update of serial_floyd_warshall for the outer index kk.
SerialRelax(g, n, kk, i, j) ==
    IF /\ g[i * n + j] > IntAdd(g[i * n + kk], g[kk * n + j])
       /\ g[kk * n + j] # INF
       /\ g[i * n + kk] # INF
    THEN [g EXCEPT ![i * n + j] = IntAdd(g[i * n + kk], g[kk * n + j])]
    ELSE g

\* The update stored at (j,i) for (i,j).
NaiveRelaxTransposedStore(g, n, kk, i, j) ==
    IF /\ g[i * n + j] > IntAdd(g[i * n + kk], g[kk * n + j])
       /\ g[kk * n + j] # INF
       /\ g[i * n + kk] # INF
    THEN [g EXCEPT ![j * n + i] = IntAdd(g[i * n + kk], g[kk * n + j])]
    ELSE g

\* The update storing the sum whenever the entry differs from it, smaller
\* or not.
NaiveRelaxNotEqual(g, n, kk, i, j) ==
    IF /\ g[i * n + j] # IntAdd(g[i * n + kk], g[kk * n + j])
       /\ g[kk * n + j] # INF
       /\ g[i * n + kk] # INF
    THEN [g EXCEPT ![i * n + j] = IntAdd(g[i * n + kk], g[kk * n + j])]
    ELSE g

\* One (i,j) update of naive_floyd_warshall for the outer index kk.
NaiveRelax(g, n, kk, i, j) ==
    IF /\ g[i * n + j] > IntAdd(g[i * n + kk], g[kk * n + j])
       /\ g[kk * n + j] # INF
       /\ g[i * n + kk] # INF
    THEN [g EXCEPT ![i * n + j] = IntAdd(g[i * n + kk], g[kk * n + j])]
    ELSE g

\* serial_floyd_warshall as a function: SerialSweep is the loops over i and j
\* for one kk, from step s on (s is the offset i*n+j the update may write;
\* testing it keeps the evaluation of each update strict).
RECURSIVE SerialSweep(_, _, _, _)
SerialSweep(g, n, kk, s) ==
    IF s >= n * n THEN g
    ELSE LET g2 == SerialRelax(g, n, kk, s \div n, s % n)
         IN  IF g2[s] = g[s] THEN SerialSweep(g, n, kk, s + 1)
             ELSE SerialSweep(g2, n, kk, s + 1)

RECURSIVE SerialFrom(_, _, _)
SerialFrom(g, n, kk) ==
    IF kk >= n THEN g
    ELSE SerialFrom(SerialSweep(g, n, kk, 0), n, kk + 1)

serial_floyd_warshall(g, n) == SerialFrom(g, n, 0)

\* naive_floyd_warshall with a team of one thread: the loops k, i, j in order.
RECURSIVE NaiveSweep(_, _, _, _)
NaiveSweep(g, n, kk, s) ==
    IF s >= n * n THEN g
    ELSE LET g2 == NaiveRelax(g, n, kk, s \div n, s % n)
         IN  IF g2[s] = g[s] THEN NaiveSweep(g, n, kk, s + 1)
             ELSE NaiveSweep(g2, n, kk, s + 1)

RECURSIVE NaiveFrom(_, _, _)
NaiveFrom(g, n, kk) ==
    IF kk >= n THEN g
    ELSE NaiveFrom(NaiveSweep(g, n, kk, 0), n, kk + 1)

naive_floyd_warshall(g, n) == NaiveFrom(g, n, 0)

\* blocked_floyd_warshall with a team of one thread: every loop in index order.
RECURSIVE RowsFrom(_, _, _, _, _, _)
RowsFrom(W, n, b, K, wkk, J) ==
    IF J >= n \div b THEN W
    ELSE RowsFrom(IF J # K THEN WriteBlock(W, n, b, K, J, RowBlock(W, n, b, K, J, wkk))
                  ELSE W, n, b, K, wkk, J + 1)

RECURSIVE ColsFrom(_, _, _, _, _, _)
ColsFrom(W, n, b, K, wkk, I) ==
    IF I >= n \div b THEN W
    ELSE ColsFrom(IF I # K THEN WriteBlock(W, n, b, I, K, ColBlock(W, n, b, K, I, wkk))
                  ELSE W, n, b, K, wkk, I + 1)

RECURSIVE UpdsFrom(_, _, _, _, _)
UpdsFrom(W, n, b, K, s) ==
    LET B == n \div b
        I == s \div B
        J == s % B
    IN  IF s >= B * B THEN W
        ELSE UpdsFrom(IF I # K /\ J # K
                      THEN WriteBlock(W, n, b, I, J, UpdBlock(W, n, b, K, I, J))
                      ELSE W, n, b, K, s + 1)

RECURSIVE BlockedFrom(_, _, _, _)
BlockedFrom(W, n, b, K) ==
    IF K >= n \div b THEN W
    ELSE LET wkk == DiagBlock(W, n, b, K)
             W1 == WriteBlock(W, n, b, K, K, wkk)
             W2 == RowsFrom(W1, n, b, K, wkk, 0)
             W3 == ColsFrom(W2, n, b, K, wkk, 0)
             W4 == UpdsFrom(W3, n, b, K, 0)
         IN  BlockedFrom(W4, n, b, K + 1)

blocked_floyd_warshall(W, n, b) == BlockedFrom(W, n, b, 0)

\* ------------------------------------------------------------ the inputs
\* Finite edge weights of the input graphs: a small weight and the largest
\* value below the sentinel.
Weights == {1, INF - 1}

Engines == {"serial", "naive", "blocked"}

OffDiag(n) == {p \in 0..(n * n - 1) : p \div n # p % n}

\* The DenseGraphs of size n: diagonal 0, every other entry a weight or INF.
Graphs(n) ==
    {[p \in 0..(n * n - 1) |-> IF p \in OffDiag(n) THEN f[p] ELSE 0] :
        f \in [OffDiag(n) -> Weights \cup {INF}]}

\* The DenseGraphs of size n the generator produces: every edge of weight 1.
UnitGraphs(n) ==
    {[p \in 0..(n * n - 1) |-> IF p \in OffDiag(n) THEN f[p] ELSE 0] :
        f \in [OffDiag(n) -> {1, INF}]}

\* Scenario A: 4 vertices, the edges 0->1, 1->2, 2->3 of weight 1.
ScenarioGraph ==
    [p \in 0..15 |-> IF p \div 4 = p % 4 THEN 0
                     ELSE IF p \in {0 * 4 + 1, 1 * 4 + 2, 2 * 4 + 3} THEN 1
                     ELSE INF]

Divisors(n) == {b \in 1..n : n % b = 0}

\* The buffers handed to the generator: test.cpp fills it with INF,
\* main.cpp with 0.
FillValues == {0, INF}

\* ------------------------------------------------------- OpenMP runtime
\* schedule(static) without a chunk size: one contiguous chunk of rows per
\* thread, the first n % T threads getting one row more.
ChunkLen(t, n, T) == (n \div T) + (IF t < n % T THEN 1 ELSE 0)
ChunkLo(t, n, T) == t * (n \div T) + (IF t < n % T THEN t ELSE n % T)

\* Units of work of task t in the current parallel region of the blocked
\* engine: a load and a store per block it relaxes.
TaskLen(ph, B, K, t) ==
    IF t = K THEN 0
    ELSE IF ph = "upd" THEN 2 * (B - 1) ELSE 2

\* Tasks a thread of the team is busy with.
InFlight(ph, B, K, pos) ==
    Cardinality({t \in DOMAIN pos : pos[t] > 0 /\ pos[t] < TaskLen(ph, B, K, t)})

\* The J-th block column other than K, in index order.
NthOther(K, c) == IF c < K THEN c ELSE c + 1

\* ---------------------------------------------------------- the engines
\* main is not executing: the engine or the generator is called directly.
NoMain ==
    /\ mpc = "none"
    /\ args = <<>>
    /\ max_threads = 1
    /\ omp_calls = <<>>
    /\ timestamps = <<>>
    /\ exit_status = 0

\* The state on entry to engine e.
Enter(e, n, b, T, g, r) ==
    /\ engine = e
    /\ vertices = n
    /\ tile_length = b
    /\ threads = T
    /\ input = g
    /\ graph = g
    /\ k = 0
    /\ run = r
    /\ Wkk = NoBlock
    /\ phase = (IF e = "blocked" THEN "diag" ELSE e)
    /\ pc = (IF e = "blocked" /\ n \div b = 0 THEN "done" ELSE "run")
    /\ tpos = (IF e = "serial" THEN [t \in {0} |-> 0]
               ELSE IF e = "naive" THEN [t \in 0..(T - 1) |-> 0]
               ELSE [t \in 0..(n \div b - 1) |-> 0])
    /\ tbuf = (IF e = "blocked" THEN [t \in 0..(n \div b - 1) |-> NoBlock]
               ELSE [t \in {0} |-> NoBlock])
    /\ edges = 0
    /\ edge = <<>>
    /\ gi = 0
    /\ ret = 0
    /\ NoMain

\* Every engine on every DenseGraph of up to MaxN vertices; and, to reach
\* blocks of more than one vertex with more than one block per dimension,
\* the blocked engine on the unit-weight graphs of up to MaxTiledN vertices.
Init ==
    \/ \E n \in 1..MaxN, e \in Engines :
        \E g \in Graphs(n),
           b \in (IF e = "blocked" THEN Divisors(n) ELSE {1}),
           T \in (IF e = "serial" THEN {1} ELSE 1..MaxThreads) :
            Enter(e, n, b, T, g, 1)
    \/ \E n \in (MaxN + 1)..MaxTiledN :
        \E g \in UnitGraphs(n),
           b \in {d \in Divisors(n) : n \div d <= MaxBlocks},
           T \in 1..MaxThreads :
            Enter("blocked", n, b, T, g, 1)

\* serial_floyd_warshall: one (i,j) update, and the loop increments after it.
SerialStep ==
    /\ pc = "run" /\ phase = "serial"
    /\ LET n == vertices
           s == tpos[0]
           i == (s \div n) % n
           j == s % n
       IN  /\ graph' = SerialRelax(graph, n, k, i, j)
           /\ tpos' = [tpos EXCEPT ![0] = s + 1]
           /\ k' = (s + 1) \div (n * n)
           /\ pc' = IF s + 1 = n * n * n THEN "done" ELSE "run"
    /\ UNCHANGED <<engine, vertices, tile_length, threads, input, phase, tbuf, Wkk, run, genVars>>

\* naive_floyd_warshall: thread t relaxes the next (i,j) of its chunk of rows.
NaiveStep(t) ==
    /\ pc = "run" /\ phase = "naive"
    /\ tpos[t] < ChunkLen(t, vertices, threads) * vertices
    /\ LET n == vertices
           i == ChunkLo(t, n, threads) + (tpos[t] \div n)
           j == tpos[t] % n
       IN  graph' = NaiveRelax(graph, n, k, i, j)
    /\ tpos' = [tpos EXCEPT ![t] = @ + 1]
    /\ UNCHANGED <<pc, engine, vertices, tile_length, threads, input, k, phase, tbuf, Wkk, run, genVars>>

\* The parallel loop without its barrier (nowait): k moves on while threads
\* are still at work.
NaiveBarrierNoWait ==
    /\ pc = "run" /\ phase = "naive"
    /\ k' = k + 1
    /\ tpos' = [t \in DOMAIN tpos |-> 0]
    /\ pc' = IF k + 1 = vertices THEN "done" ELSE "run"
    /\ UNCHANGED <<engine, vertices, tile_length, threads, input, graph, phase, tbuf, Wkk, run, genVars>>

\* naive_floyd_warshall: the barrier that ends the parallel loop of iteration
\* k, and the increment of k.
NaiveBarrier ==
    /\ pc = "run" /\ phase = "naive"
    /\ \A t \in DOMAIN tpos : tpos[t] = ChunkLen(t, vertices, threads) * vertices
    /\ k' = k + 1
    /\ tpos' = [t \in DOMAIN tpos |-> 0]
    /\ pc' = IF k + 1 = vertices THEN "done" ELSE "run"
    /\ UNCHANGED <<engine, vertices, tile_length, threads, input, graph, phase, tbuf, Wkk, run, genVars>>

\* blocked_floyd_warshall, dependent phase: copy block (k,k), relax it against
\* itself, write it back.
BlockedDiag ==
    /\ pc = "run" /\ phase = "diag"
    /\ LET wkk == DiagBlock(graph, vertices, tile_length, k)
       IN  /\ Wkk' = wkk
           /\ graph' = WriteBlock(graph, vertices, tile_length, k, k, wkk)
    /\ phase' = "row"
    /\ UNCHANGED <<pc, engine, vertices, tile_length, threads, input, k, tpos, tbuf, run, genVars>>

\* A thread of the team takes iteration t of the parallel loop of the phase:
\* it is free to when the task is under way, or a thread is idle.
MayWork(t) ==
    LET B == vertices \div tile_length
    IN  /\ t # k
        /\ tpos[t] < TaskLen(phase, B, k, t)
        /\ tpos[t] > 0 \/ InFlight(phase, B, k, tpos) < threads

\* Row block (k,j): copy it, relax the copy against Wkk and the snapshot.
RowLoad(j) ==
    /\ pc = "run" /\ phase = "row"
    /\ MayWork(j) /\ tpos[j] = 0
    /\ tbuf' = [tbuf EXCEPT ![j] = RowBlock(graph, vertices, tile_length, k, j, Wkk)]
    /\ tpos' = [tpos EXCEPT ![j] = 1]
    /\ UNCHANGED <<pc, engine, vertices, tile_length, threads, input, graph, k, phase, Wkk, run, genVars>>

\* Row block (k,j): write the relaxed copy back.
RowStore(j) ==
    /\ pc = "run" /\ phase = "row"
    /\ MayWork(j) /\ tpos[j] = 1
    /\ graph' = WriteBlock(graph, vertices, tile_length, k, j, tbuf[j])
    /\ tbuf' = [tbuf EXCEPT ![j] = NoBlock]
    /\ tpos' = [tpos EXCEPT ![j] = 2]
    /\ UNCHANGED <<pc, engine, vertices, tile_length, threads, input, k, phase, Wkk, run, genVars>>

\* Column block (i,k): copy it, relax the copy against the snapshot and Wkk.
ColLoad(i) ==
    /\ pc = "run" /\ phase = "col"
    /\ MayWork(i) /\ tpos[i] = 0
    /\ tbuf' = [tbuf EXCEPT ![i] = ColBlock(graph, vertices, tile_length, k, i, Wkk)]
    /\ tpos' = [tpos EXCEPT ![i] = 1]
    /\ UNCHANGED <<pc, engine, vertices, tile_length, threads, input, graph, k, phase, Wkk, run, genVars>>

\* The column task writing its copy back at (k,i) for (i,k).
ColStoreTransposed(i) ==
    /\ pc = "run" /\ phase = "col"
    /\ MayWork(i) /\ tpos[i] = 1
    /\ graph' = WriteBlock(graph, vertices, tile_length, k, i, tbuf[i])
    /\ tbuf' = [tbuf EXCEPT ![i] = NoBlock]
    /\ tpos' = [tpos EXCEPT ![i] = 2]
    /\ UNCHANGED <<pc, engine, vertices, tile_length, threads, input, k, phase, Wkk, run, genVars>>

\* Column block (i,k): write the relaxed copy back.
ColStore(i) ==
    /\ pc = "run" /\ phase = "col"
    /\ MayWork(i) /\ tpos[i] = 1
    /\ graph' = WriteBlock(graph, vertices, tile_length, i, k, tbuf[i])
    /\ tbuf' = [tbuf EXCEPT ![i] = NoBlock]
    /\ tpos' = [tpos EXCEPT ![i] = 2]
    /\ UNCHANGED <<pc, engine, vertices, tile_length, threads, input, k, phase, Wkk, run, genVars>>

\* Independent phase, iteration i of the parallel loop: copy the next block
\* (i,j), j # k, with its operands (i,k) and (k,j), and relax the copy.
UpdLoad(i) ==
    /\ pc = "run" /\ phase = "upd"
    /\ MayWork(i) /\ tpos[i] % 2 = 0
    /\ LET j == NthOther(k, tpos[i] \div 2)
       IN  tbuf' = [tbuf EXCEPT ![i] = UpdBlock(graph, vertices, tile_length, k, i, j)]
    /\ tpos' = [tpos EXCEPT ![i] = @ + 1]
    /\ UNCHANGED <<pc, engine, vertices, tile_length, threads, input, graph, k, phase, Wkk, run, genVars>>

\* The update task writing its copy back at (j,i) for (i,j).
UpdStoreTransposed(i) ==
    /\ pc = "run" /\ phase = "upd"
    /\ MayWork(i) /\ tpos[i] % 2 = 1
    /\ LET j == NthOther(k, tpos[i] \div 2)
       IN  graph' = WriteBlock(graph, vertices, tile_length, j, i, tbuf[i])
    /\ tbuf' = [tbuf EXCEPT ![i] = NoBlock]
    /\ tpos' = [tpos EXCEPT ![i] = @ + 1]
    /\ UNCHANGED <<pc, engine, vertices, tile_length, threads, input, k, phase, Wkk, run, genVars>>

\* The update task writing its copy back one block column too far.
UpdStoreNextColumn(i) ==
    /\ pc = "run" /\ phase = "upd"
    /\ MayWork(i) /\ tpos[i] % 2 = 1
    /\ LET j == NthOther(k, tpos[i] \div 2)
       IN  graph' = WriteBlock(graph, vertices, tile_length, i, j + 1, tbuf[i])
    /\ tbuf' = [tbuf EXCEPT ![i] = NoBlock]
    /\ tpos' = [tpos EXCEPT ![i] = @ + 1]
    /\ UNCHANGED <<pc, engine, vertices, tile_length, threads, input, k, phase, Wkk, run, genVars>>

\* Independent phase: write block (i,j) back.
UpdStore(i) ==
    /\ pc = "run" /\ phase = "upd"
    /\ MayWork(i) /\ tpos[i] % 2 = 1
    /\ LET j == NthOther(k, tpos[i] \div 2)
       IN  graph' = WriteBlock(graph, vertices, tile_length, i, j, tbuf[i])
    /\ tbuf' = [tbuf EXCEPT ![i] = NoBlock]
    /\ tpos' = [tpos EXCEPT ![i] = @ + 1]
    /\ UNCHANGED <<pc, engine, vertices, tile_length, threads, input, k, phase, Wkk, run, genVars>>

\* The parallel loops without their barrier (nowait): a task not yet started
\* is skipped.
BlockedBarrierNoWait ==
    /\ pc = "run" /\ phase \in {"row", "col", "upd"}
    /\ LET B == vertices \div tile_length
       IN  /\ InFlight(phase, B, k, tpos) = 0
           /\ phase' = (IF phase = "row" THEN "col"
                        ELSE IF phase = "col" THEN "upd" ELSE "diag")
           /\ k' = IF phase = "upd" THEN k + 1 ELSE k
           /\ pc' = IF phase = "upd" /\ k + 1 = B THEN "done" ELSE "run"
           /\ Wkk' = IF phase = "upd" THEN NoBlock ELSE Wkk
    /\ tpos' = [t \in DOMAIN tpos |-> 0]
    /\ UNCHANGED <<engine, vertices, tile_length, threads, input, graph, tbuf, run, genVars>>

\* The barrier released as soon as every task has been started.
BlockedBarrierEarly ==
    /\ pc = "run" /\ phase \in {"row", "col", "upd"}
    /\ LET B == vertices \div tile_length
       IN  /\ \A t \in DOMAIN tpos : t # k => tpos[t] > 0
           /\ phase' = (IF phase = "row" THEN "col"
                        ELSE IF phase = "col" THEN "upd" ELSE "diag")
           /\ k' = IF phase = "upd" THEN k + 1 ELSE k
           /\ pc' = IF phase = "upd" /\ k + 1 = B THEN "done" ELSE "run"
           /\ Wkk' = IF phase = "upd" THEN NoBlock ELSE Wkk
    /\ tpos' = [t \in DOMAIN tpos |-> 0]
    /\ UNCHANGED <<engine, vertices, tile_length, threads, input, graph, tbuf, run, genVars>>

\* The barrier that ends a parallel loop of the blocked engine; after the
\* independent phase, the increment of k.
BlockedBarrier ==
    /\ pc = "run" /\ phase \in {"row", "col", "upd"}
    /\ LET B == vertices \div tile_length
       IN  /\ \A t \in DOMAIN tpos : tpos[t] = TaskLen(phase, B, k, t)
           /\ phase' = (IF phase = "row" THEN "col"
                        ELSE IF phase = "col" THEN "upd" ELSE "diag")
           /\ k' = IF phase = "upd" THEN k + 1 ELSE k
           /\ pc' = IF phase = "upd" /\ k + 1 = B THEN "done" ELSE "run"
           /\ Wkk' = IF phase = "upd" THEN NoBlock ELSE Wkk
    /\ tpos' = [t \in DOMAIN tpos |-> 0]
    /\ UNCHANGED <<engine, vertices, tile_length, threads, input, graph, tbuf, run, genVars>>

\* The engine is called again, on the matrix it has just produced.
Rerun ==
    /\ pc = "done" /\ run = 1
    /\ pc' = "run"
    /\ run' = 2
    /\ input' = graph
    /\ k' = 0
    /\ phase' = (IF engine = "blocked" THEN "diag" ELSE engine)
    /\ tpos' = [t \in DOMAIN tpos |-> 0]
    /\ UNCHANGED <<engine, vertices, tile_length, threads, graph, tbuf, Wkk, genVars>>

Next ==
    \/ SerialStep
    \/ \E t \in DOMAIN tpos : NaiveStep(t)
    \/ NaiveBarrier
    \/ BlockedDiag
    \/ \E t \in DOMAIN tpos : RowLoad(t)
    \/ \E t \in DOMAIN tpos : RowStore(t)
    \/ \E t \in DOMAIN tpos : ColLoad(t)
    \/ \E t \in DOMAIN tpos : ColStore(t)
    \/ \E t \in DOMAIN tpos : UpdLoad(t)
    \/ \E t \in DOMAIN tpos : UpdStore(t)
    \/ BlockedBarrier
    \/ Rerun

Spec == Init /\ [][Next]_vars

\* The DenseGraph of size n with the unit-weight edges at the offsets picked
\* by e; a pick on the diagonal adds no edge.
PickedGraph(n, e) ==
    [p \in 0..(n * n - 1) |->
        IF p \div n = p % n THEN 0
        ELSE IF \E x \in DOMAIN e : e[x] = p THEN 1
        ELSE INF]

\* The blocked engine with several blocks of several vertices each: TiledN
\* vertices, every proper block size, on the unit-weight graphs of at most
\* MaxTiledEdges edges, with the largest team (a smaller team's schedules
\* are among those of a larger one, a thread being free to idle).
InitTiled ==
    \E b \in {d \in Divisors(TiledN) : 1 < d /\ d < TiledN},
       T \in {MaxThreads},
       e \in [1..MaxTiledEdges -> 0..(TiledN * TiledN - 1)] :
        Enter("blocked", TiledN, b, T, PickedGraph(TiledN, e), 1)

NextTiled ==
    \/ BlockedDiag
    \/ \E t \in DOMAIN tpos : RowLoad(t)
    \/ \E t \in DOMAIN tpos : RowStore(t)
    \/ \E t \in DOMAIN tpos : ColLoad(t)
    \/ \E t \in DOMAIN tpos : ColStore(t)
    \/ \E t \in DOMAIN tpos : UpdLoad(t)
    \/ \E t \in DOMAIN tpos : UpdStore(t)
    \/ BlockedBarrier

SpecTiled == InitTiled /\ [][NextTiled]_vars

\* Scenario A under every engine and every block size.
InitA ==
    \E e \in Engines :
        \E b \in (IF e = "blocked" THEN Divisors(4) ELSE {1}),
           T \in (IF e = "serial" THEN {1} ELSE 1..MaxThreads) :
            Enter(e, 4, b, T, ScenarioGraph, 1)

SpecA == InitA /\ [][Next]_vars

\* -------------------------------------------------------- the generator
\* The test off by one: the maximum itself refused.
TooManyEdgesOffByOne(V, E) == E >= V * (V - 1)

\* The test of generate_linear_graph that rejects the request.
TooManyEdges(V, E) == E > V * (V - 1)

\* The scan with the bound j <= i: the candidate is compared with itself.
RECURSIVE DupScanInclusive(_, _, _)
DupScanInclusive(ed, i, j) ==
    IF j > i THEN i
    ELSE IF ed[i][1] = ed[j][1] /\ ed[i][2] = ed[j][2]
         THEN DupScanInclusive(ed, i - 1, j + 1)
         ELSE DupScanInclusive(ed, i, j + 1)

\* The scan that finds a duplicate and leaves i as it is.
DupScanNoDecrement(ed, i, j) == i

\* The for loop that discards a duplicate: it compares edge[i] with every
\* edge[j], j < i, and decrements i on a match; both edge[i] and the bound
\* j < i are read again with the decremented i.
RECURSIVE DupScan(_, _, _)
DupScan(ed, i, j) ==
    IF j >= i THEN i
    ELSE IF ed[i][1] = ed[j][1] /\ ed[i][2] = ed[j][2]
         THEN DupScan(ed, i - 1, j + 1)
         ELSE DupScan(ed, i, j + 1)

\* The loop that marks the edges in the matrix.
RECURSIVE MarkFrom(_, _, _, _, _)
MarkFrom(g, ed, V, E, j) ==
    IF j >= E THEN g
    ELSE MarkFrom([g EXCEPT ![ed[j][1] * V + ed[j][2]] = 1], ed, V, E, j + 1)

InitGen ==
    \E V \in 1..MaxV, f \in FillValues :
        \E E \in 0..(V * (V - 1) + MaxExcess) :
            /\ pc = "gen_entry"
            /\ vertices = V
            /\ edges = E
            /\ graph = [p \in 0..(V * V - 1) |-> f]
            /\ input = [p \in 0..(V * V - 1) |-> f]
            /\ edge = <<>>
            /\ gi = 0
            /\ ret = 0
            /\ engine = "none"
            /\ tile_length = 1
            /\ threads = 1
            /\ k = 0
            /\ phase = "none"
            /\ tpos = <<>>
            /\ tbuf = <<>>
            /\ Wkk = NoBlock
            /\ run = 1
            /\ NoMain

\* generate_linear_graph up to the while loop: the diagonal is set to 0, and
\* a request for too many edges is refused.
GenEntry ==
    /\ pc = "gen_entry"
    /\ graph' = [p \in DOMAIN graph |->
                    IF p \div vertices = p % vertices THEN 0 ELSE graph[p]]
    /\ IF TooManyEdges(vertices, edges)
       THEN /\ ret' = -1
            /\ pc' = "gen_done"
            /\ edge' = edge
       ELSE /\ ret' = ret
            /\ pc' = "gen_loop"
            /\ edge' = [j \in 0..(edges - 1) |-> <<0, 0>>]
    /\ gi' = 0
    /\ UNCHANGED <<vertices, edges, engineVars>>

\* One iteration of the while loop, rand() % vertices giving v1 and then v2.
GenDraw(v1, v2) ==
    /\ pc = "gen_loop"
    /\ gi < edges
    /\ LET ed == [edge EXCEPT ![gi] = <<v1, v2>>]
       IN  /\ edge' = ed
           /\ gi' = IF v1 = v2 THEN gi ELSE DupScan(ed, gi, 0) + 1
    /\ UNCHANGED <<pc, vertices, graph, edges, ret, engineVars>>

\* The while loop is over: the edges are marked and 1 is returned.
GenMark ==
    /\ pc = "gen_loop"
    /\ ~(gi < edges)
    /\ graph' = MarkFrom(graph, edge, vertices, edges, 0)
    /\ ret' = 1
    /\ pc' = "gen_done"
    /\ UNCHANGED <<vertices, edges, edge, gi, engineVars>>

NextGen ==
    \/ GenEntry
    \/ \E v1 \in 0..(vertices - 1), v2 \in 0..(vertices - 1) : GenDraw(v1, v2)
    \/ GenMark

SpecGen == InitGen /\ [][NextGen]_vars

\* ------------------------------------------------------ main's kernels
\* The sweep with the tests against INF of kernels.cpp put back.
main_floydSweepGuarded(C, A, B, b, aliasA, aliasB, kk, s) ==
    floydSweep(C, A, B, b, aliasA, aliasB, kk, s)

\* main.cpp carries its own copies of the kernels, without the tests against
\* INF: the sum is always formed and compared.
RECURSIVE main_floydSweep(_, _, _, _, _, _, _, _)
main_floydSweep(C, A, B, b, aliasA, aliasB, kk, s) ==
    IF s >= b * b THEN C
    ELSE LET j == s \div b
             i == s % b
             c_idx == block_idx(i, j, b)
             a_idx == block_idx(i, kk, b)
             b_idx == block_idx(kk, j, b)
             av == IF aliasA THEN C[a_idx] ELSE A[a_idx]
             bv == IF aliasB THEN C[b_idx] ELSE B[b_idx]
         IN  IF MinTakes(C[c_idx], IntAdd(av, bv))
             THEN main_floydSweep([C EXCEPT ![c_idx] = IntAdd(av, bv)],
                                  A, B, b, aliasA, aliasB, kk, s + 1)
             ELSE main_floydSweep(C, A, B, b, aliasA, aliasB, kk, s + 1)

RECURSIVE main_floydFrom(_, _, _, _, _, _, _)
main_floydFrom(C, A, B, b, aliasA, aliasB, kk) ==
    IF kk >= b THEN C
    ELSE main_floydFrom(main_floydSweep(C, A, B, b, aliasA, aliasB, kk, 0),
                        A, B, b, aliasA, aliasB, kk + 1)

\* The relaxation reading both operands from the buffers passed in, as if
\* the output buffer were never one of them.
main_floydNoAlias(C, A, B, b, aliasA, aliasB) ==
    main_floydFrom(C, A, B, b, FALSE, FALSE, 0)

main_floyd(C, A, B, b, aliasA, aliasB) ==
    main_floydFrom(C, A, B, b, aliasA, aliasB, 0)

\* The blocks main.cpp's blocked_floyd_warshall relaxes: the calls
\* floyd(Wkk, Wkk, Wkk, b), floyd(Wkj_tmp, Wkk, Wkj, b),
\* floyd(Wik_tmp, Wik, Wkk, b) and floyd(Wij, Wik, Wkj, b) on copies.
main_DiagBlock(W, n, b, K) ==
    LET blk == ReadBlock(W, n, b, K, K)
    IN  main_floyd(blk, blk, blk, b, TRUE, TRUE)

main_RowBlock(W, n, b, K, J, wkk) ==
    LET Wkj == ReadBlock(W, n, b, K, J)
    IN  main_floyd(Wkj, wkk, Wkj, b, FALSE, FALSE)

main_ColBlock(W, n, b, K, I, wkk) ==
    LET Wik == ReadBlock(W, n, b, I, K)
    IN  main_floyd(Wik, Wik, wkk, b, FALSE, FALSE)

main_UpdBlock(W, n, b, K, I, J) ==
    main_floyd(ReadBlock(W, n, b, I, J), ReadBlock(W, n, b, I, K),
               ReadBlock(W, n, b, K, J), b, FALSE, FALSE)

\* main.cpp's blocked_floyd_warshall, its loops in index order.  B = n / b
\* blocks per dimension are processed: none when b > n, and the leading
\* B * b rows and columns when b does not divide n.  (The tests W2 = W keep
\* the evaluation of each write-back strict.)
RECURSIVE main_RowsFrom(_, _, _, _, _, _)
main_RowsFrom(W, n, b, K, wkk, J) ==
    IF J >= n \div b THEN W
    ELSE IF J = K THEN main_RowsFrom(W, n, b, K, wkk, J + 1)
    ELSE LET W2 == WriteBlock(W, n, b, K, J, main_RowBlock(W, n, b, K, J, wkk))
         IN  IF W2 = W THEN main_RowsFrom(W, n, b, K, wkk, J + 1)
             ELSE main_RowsFrom(W2, n, b, K, wkk, J + 1)

RECURSIVE main_ColsFrom(_, _, _, _, _, _)
main_ColsFrom(W, n, b, K, wkk, I) ==
    IF I >= n \div b THEN W
    ELSE IF I = K THEN main_ColsFrom(W, n, b, K, wkk, I + 1)
    ELSE LET W2 == WriteBlock(W, n, b, I, K, main_ColBlock(W, n, b, K, I, wkk))
         IN  IF W2 = W THEN main_ColsFrom(W, n, b, K, wkk, I + 1)
             ELSE main_ColsFrom(W2, n, b, K, wkk, I + 1)

RECURSIVE main_UpdsFrom(_, _, _, _, _)
main_UpdsFrom(W, n, b, K, s) ==
    LET B == n \div b
        I == s \div B
        J == s % B
    IN  IF s >= B * B THEN W
        ELSE IF I = K \/ J = K THEN main_UpdsFrom(W, n, b, K, s + 1)
        ELSE LET W2 == WriteBlock(W, n, b, I, J, main_UpdBlock(W, n, b, K, I, J))
             IN  IF W2 = W THEN main_UpdsFrom(W, n, b, K, s + 1)
                 ELSE main_UpdsFrom(W2, n, b, K, s + 1)

RECURSIVE main_BlockedFrom(_, _, _, _)
main_BlockedFrom(W, n, b, K) ==
    IF K >= n \div b THEN W
    ELSE LET wkk == main_DiagBlock(W, n, b, K)
             W1 == WriteBlock(W, n, b, K, K, wkk)
             W2 == main_RowsFrom(W1, n, b, K, wkk, 0)
             W3 == main_ColsFrom(W2, n, b, K, wkk, 0)
             W4 == main_UpdsFrom(W3, n, b, K, 0)
         IN  IF W1 = W /\ W4 = W THEN main_BlockedFrom(W, n, b, K + 1)
             ELSE main_BlockedFrom(W4, n, b, K + 1)

main_blocked_floyd_warshall(W, n, b) == main_BlockedFrom(W, n, b, 0)

\* One (i,j) update of the loop nests written out in main.
MainRelax(g, n, kk, i, j) ==
    IF g[i * n + j] > IntAdd(g[i * n + kk], g[kk * n + j])
    THEN [g EXCEPT ![i * n + j] = IntAdd(g[i * n + kk], g[kk * n + j])]
    ELSE g

RECURSIVE MainSweep(_, _, _, _)
MainSweep(g, n, kk, s) ==
    IF s >= n * n THEN g
    ELSE LET g2 == MainRelax(g, n, kk, s \div n, s % n)
         IN  IF g2[s] = g[s] THEN MainSweep(g, n, kk, s + 1)
             ELSE MainSweep(g2, n, kk, s + 1)

RECURSIVE MainFrom(_, _, _)
MainFrom(g, n, kk) ==
    IF kk >= n THEN g
    ELSE MainFrom(MainSweep(g, n, kk, 0), n, kk + 1)

\* The sequential loop nest of main; the naive-parallel one is the same nest
\* under omp parallel for collapse(2), whose updates for one k write no entry
\* of row k or column k of the 0/1 matrix main builds, so that every
\* schedule computes what the index order computes.
MainLoopNest(g, n) == MainFrom(g, n, 0)

\* ------------------------------------------------------------------ main
\* The thread count left as requested.
ClampThreadsNone(t, m) == t

\* if (threads > max_threads) threads = max_threads;
ClampThreads(t, m) == IF t > m THEN m ELSE t

\* What CLI11_PARSE makes of the command line: the options are parsed, help
\* is asked for, or the command line is rejected with a ParseError.
ParseOutcomes == {"ok", "help", "error"}

\* The codes app.exit returns for the ParseErrors a command line of this
\* program raises: ConversionError (a value that does not convert to int),
\* ValidationError (a value PositiveNumber rejects), ExtrasError (an unknown
\* option or a stray argument), ArgumentMismatch (an option without its
\* value, or given twice).
ParseErrorCodes == {104, 105, 109, 114}

\* main before CLI11_PARSE, with the command line it is given: every option
\* a positive number when the parse accepts it, every flag a bool.  A
\* feasible edge count is kept to MaxMainEdges.
InitMain ==
    \E V \in 1..MaxV, b \in 1..(MaxV + 1), T \in 1..(MaxThreads + 1),
       M \in 1..MaxThreads, s \in BOOLEAN, np \in BOOLEAN, bp \in BOOLEAN,
       o \in ParseOutcomes :
        \E E \in {e \in 1..(V * (V - 1) + MaxExcess) :
                     e <= MaxMainEdges \/ e > V * (V - 1)} :
            /\ pc = "main"
            /\ mpc = "parse"
            /\ args = [run_sequential |-> s, run_naive_parallel |-> np,
                       run_block_parallel |-> bp, threads |-> T, parse |-> o]
            /\ vertices = V
            /\ edges = E
            /\ threads = T
            /\ tile_length = b
            /\ max_threads = M
            /\ omp_calls = <<>>
            /\ timestamps = <<>>
            /\ exit_status = 0
            /\ graph = <<>>
            /\ input = <<>>
            /\ edge = <<>>
            /\ gi = 0
            /\ ret = 0
            /\ engine = "none"
            /\ k = 0
            /\ phase = "none"
            /\ tpos = <<>>
            /\ tbuf = <<>>
            /\ Wkk = NoBlock
            /\ run = 1

\* Line 49, CLI11_PARSE: try { app.parse } catch { return app.exit(e) }.
\* main returns there with 0 when help is asked for and with the code of
\* the ParseError when the command line is rejected.
MainParse ==
    /\ pc = "main" /\ mpc = "parse"
    /\ \/ /\ args.parse = "ok"
          /\ mpc' = "configure"
          /\ exit_status' = exit_status
       \/ /\ args.parse = "help"
          /\ mpc' = "exited"
          /\ exit_status' = 0
       \/ /\ args.parse = "error"
          /\ mpc' = "exited"
          /\ exit_status' \in ParseErrorCodes
    /\ UNCHANGED <<pc, engine, vertices, tile_length, threads, input, graph, k, phase,
                   tpos, tbuf, Wkk, run, edges, edge, gi, ret, args, max_threads,
                   omp_calls, timestamps>>

\* Lines 51-80: the tile length larger than the vertex count is logged and
\* nothing else; the thread count is clamped and handed to the runtime.
MainConfigure ==
    /\ pc = "main" /\ mpc = "configure"
    /\ threads' = ClampThreads(threads, max_threads)
    /\ omp_calls' = Append(omp_calls, ClampThreads(threads, max_threads))
    /\ mpc' = "mode"
    /\ UNCHANGED <<pc, engine, vertices, tile_length, input, graph, k, phase, tpos,
                   tbuf, Wkk, run, edges, edge, gi, ret, args, max_threads,
                   timestamps, exit_status>>

\* Lines 82-97: return 1 when no flag is set.
MainMode ==
    /\ pc = "main" /\ mpc = "mode"
    /\ IF ~args.run_sequential /\ ~args.run_naive_parallel /\ ~args.run_block_parallel
       THEN mpc' = "exited" /\ exit_status' = 1
       ELSE mpc' = "generate" /\ exit_status' = exit_status
    /\ UNCHANGED <<pc, engine, vertices, tile_length, threads, input, graph, k, phase,
                   tpos, tbuf, Wkk, run, edges, edge, gi, ret, args, max_threads,
                   omp_calls, timestamps>>

\* Lines 99-102: the matrix is allocated, value-initialised to 0, and
\* generate_linear_graph is called.
MainGenerate ==
    /\ pc = "main" /\ mpc = "generate"
    /\ graph' = [p \in 0..(vertices * vertices - 1) |-> 0]
    /\ input' = [p \in 0..(vertices * vertices - 1) |-> 0]
    /\ pc' = "gen_entry"
    /\ mpc' = "generating"
    /\ UNCHANGED <<engine, vertices, tile_length, threads, k, phase, tpos, tbuf, Wkk,
                   run, edges, edge, gi, ret, args, max_threads, omp_calls,
                   timestamps, exit_status>>

\* Lines 102-106: if (!generate_linear_graph(...)) return 1; the test is
\* true of the value 0 only.
MainGenerated ==
    /\ pc = "gen_done" /\ mpc = "generating"
    /\ pc' = "main"
    /\ IF ret = 0
       THEN mpc' = "exited" /\ exit_status' = 1
       ELSE mpc' = "engines" /\ exit_status' = exit_status
    /\ UNCHANGED <<engine, vertices, tile_length, threads, input, graph, k, phase,
                   tpos, tbuf, Wkk, run, edges, edge, gi, ret, args, max_threads,
                   omp_calls, timestamps>>

\* Lines 108-129: if (run_sequential).
MainSequential ==
    /\ pc = "main" /\ mpc = "engines"
    /\ args.run_sequential
    /\ graph' = MainLoopNest(graph, vertices)
    /\ engine' = "serial"
    /\ timestamps' = Append(timestamps, "Sequential time")
    /\ mpc' = "report"
    /\ UNCHANGED <<pc, vertices, tile_length, threads, input, k, phase, tpos, tbuf,
                   Wkk, run, edges, edge, gi, ret, args, max_threads, omp_calls,
                   exit_status>>

\* The naive branch under a plain if: it is also entered after the
\* sequential branch has run.
MainNaiveIf ==
    /\ pc = "main"
    /\ \/ mpc = "engines" /\ ~args.run_sequential
       \/ mpc = "report" /\ engine = "serial"
    /\ args.run_naive_parallel
    /\ engine' = "naive"
    /\ phase' = "naive"
    /\ k' = 0
    /\ tpos' = [t \in 0..(threads - 1) |-> 0]
    /\ mpc' = "naive"
    /\ UNCHANGED <<pc, vertices, tile_length, threads, input, graph, tbuf, Wkk, run,
                   edges, edge, gi, ret, args, max_threads, omp_calls, timestamps,
                   exit_status>>

\* Lines 131-137: else if (run_naive_parallel): the branch is entered, the
\* loop over k starts.
MainNaive ==
    /\ pc = "main" /\ mpc = "engines"
    /\ ~args.run_sequential /\ args.run_naive_parallel
    /\ engine' = "naive"
    /\ phase' = "naive"
    /\ k' = 0
    /\ tpos' = [t \in 0..(threads - 1) |-> 0]
    /\ mpc' = "naive"
    /\ UNCHANGED <<pc, vertices, tile_length, threads, input, graph, tbuf, Wkk, run,
                   edges, edge, gi, ret, args, max_threads, omp_calls, timestamps,
                   exit_status>>

\* Lines 140-150, omp parallel for collapse(2) schedule(static): the
\* vertices * vertices pairs (i,j) of iteration k are one iteration space,
\* cut into one contiguous chunk per thread; thread t makes the next update
\* of its chunk.
MainNaiveStep(t) ==
    /\ pc = "main" /\ mpc = "naive"
    /\ k < vertices
    /\ tpos[t] < ChunkLen(t, vertices * vertices, threads)
    /\ LET n == vertices
           s == ChunkLo(t, n * n, threads) + tpos[t]
       IN  graph' = MainRelax(graph, n, k, s \div n, s % n)
    /\ tpos' = [tpos EXCEPT ![t] = @ + 1]
    /\ UNCHANGED <<pc, engine, vertices, tile_length, threads, input, k, phase, tbuf,
                   Wkk, run, edges, edge, gi, ret, mainVars>>

\* The end of the parallel region of iteration k: the threads wait for each
\* other, and k is incremented.
MainNaiveBarrier ==
    /\ pc = "main" /\ mpc = "naive"
    /\ k < vertices
    /\ \A t \in DOMAIN tpos : tpos[t] = ChunkLen(t, vertices * vertices, threads)
    /\ k' = k + 1
    /\ tpos' = [t \in DOMAIN tpos |-> 0]
    /\ UNCHANGED <<pc, engine, vertices, tile_length, threads, input, graph, phase,
                   tbuf, Wkk, run, edges, edge, gi, ret, mainVars>>

\* Lines 151-154: the loop over k is over, the pair is recorded.
MainNaiveDone ==
    /\ pc = "main" /\ mpc = "naive"
    /\ ~(k < vertices)
    /\ timestamps' = Append(timestamps, "Naive time")
    /\ mpc' = "report"
    /\ UNCHANGED <<pc, engine, vertices, tile_length, threads, input, graph, k, phase,
                   tpos, tbuf, Wkk, run, edges, edge, gi, ret, args, max_threads,
                   omp_calls, exit_status>>

\* Lines 157-163: else if (run_block_parallel): main.cpp's
\* blocked_floyd_warshall is called; B = n / b.
MainBlocked ==
    /\ pc = "main" /\ mpc = "engines"
    /\ ~args.run_sequential /\ ~args.run_naive_parallel /\ args.run_block_parallel
    /\ engine' = "blocked"
    /\ phase' = "diag"
    /\ k' = 0
    /\ tpos' = [t \in 0..(vertices \div tile_length - 1) |-> 0]
    /\ tbuf' = [t \in 0..(vertices \div tile_length - 1) |-> NoBlock]
    /\ Wkk' = NoBlock
    /\ mpc' = "blocked"
    /\ UNCHANGED <<pc, vertices, tile_length, threads, input, graph, run, edges, edge,
                   gi, ret, args, max_threads, omp_calls, timestamps, exit_status>>

\* Lines 211-224, dependent phase: copy block (k,k), relax it against itself,
\* write it back.
MainBlockedDiag ==
    /\ pc = "main" /\ mpc = "blocked" /\ phase = "diag"
    /\ k < vertices \div tile_length
    /\ LET wkk == main_DiagBlock(graph, vertices, tile_length, k)
       IN  /\ Wkk' = wkk
           /\ graph' = WriteBlock(graph, vertices, tile_length, k, k, wkk)
    /\ phase' = "row"
    /\ UNCHANGED <<pc, engine, vertices, tile_length, threads, input, k, tpos, tbuf,
                   run, edges, edge, gi, ret, mainVars>>

\* Lines 227-237, row block (k,j): copy it and relax the copy.
MainRowLoad(j) ==
    /\ pc = "main" /\ mpc = "blocked" /\ phase = "row"
    /\ MayWork(j) /\ tpos[j] = 0
    /\ tbuf' = [tbuf EXCEPT ![j] = main_RowBlock(graph, vertices, tile_length, k, j, Wkk)]
    /\ tpos' = [tpos EXCEPT ![j] = 1]
    /\ UNCHANGED <<pc, engine, vertices, tile_length, threads, input, graph, k, phase,
                   Wkk, run, edges, edge, gi, ret, mainVars>>

\* Lines 238-242, row block (k,j): write the relaxed copy back.
MainRowStore(j) ==
    /\ pc = "main" /\ mpc = "blocked" /\ phase = "row"
    /\ MayWork(j) /\ tpos[j] = 1
    /\ graph' = WriteBlock(graph, vertices, tile_length, k, j, tbuf[j])
    /\ tbuf' = [tbuf EXCEPT ![j] = NoBlock]
    /\ tpos' = [tpos EXCEPT ![j] = 2]
    /\ UNCHANGED <<pc, engine, vertices, tile_length, threads, input, k, phase, Wkk,
                   run, edges, edge, gi, ret, mainVars>>

\* Lines 246-256, column block (i,k): copy it and relax the copy.
MainColLoad(i) ==
    /\ pc = "main" /\ mpc = "blocked" /\ phase = "col"
    /\ MayWork(i) /\ tpos[i] = 0
    /\ tbuf' = [tbuf EXCEPT ![i] = main_ColBlock(graph, vertices, tile_length, k, i, Wkk)]
    /\ tpos' = [tpos EXCEPT ![i] = 1]
    /\ UNCHANGED <<pc, engine, vertices, tile_length, threads, input, graph, k, phase,
                   Wkk, run, edges, edge, gi, ret, mainVars>>

\* Lines 257-261, column block (i,k): write the relaxed copy back.
MainColStore(i) ==
    /\ pc = "main" /\ mpc = "blocked" /\ phase = "col"
    /\ MayWork(i) /\ tpos[i] = 1
    /\ graph' = WriteBlock(graph, vertices, tile_length, i, k, tbuf[i])
    /\ tbuf' = [tbuf EXCEPT ![i] = NoBlock]
    /\ tpos' = [tpos EXCEPT ![i] = 2]
    /\ UNCHANGED <<pc, engine, vertices, tile_length, threads, input, k, phase, Wkk,
                   run, edges, edge, gi, ret, mainVars>>

\* Lines 266-279, independent phase, task i: copy the next block (i,j) and
\* its two operands, relax the copy.
MainUpdLoad(i) ==
    /\ pc = "main" /\ mpc = "blocked" /\ phase = "upd"
    /\ MayWork(i) /\ tpos[i] % 2 = 0
    /\ LET j == NthOther(k, tpos[i] \div 2)
       IN  tbuf' = [tbuf EXCEPT ![i] = main_UpdBlock(graph, vertices, tile_length, k, i, j)]
    /\ tpos' = [tpos EXCEPT ![i] = @ + 1]
    /\ UNCHANGED <<pc, engine, vertices, tile_length, threads, input, graph, k, phase,
                   Wkk, run, edges, edge, gi, ret, mainVars>>

\* Lines 280-284, independent phase, task i: write block (i,j) back.
MainUpdStore(i) ==
    /\ pc = "main" /\ mpc = "blocked" /\ phase = "upd"
    /\ MayWork(i) /\ tpos[i] % 2 = 1
    /\ LET j == NthOther(k, tpos[i] \div 2)
       IN  graph' = WriteBlock(graph, vertices, tile_length, i, j, tbuf[i])
    /\ tbuf' = [tbuf EXCEPT ![i] = NoBlock]
    /\ tpos' = [tpos EXCEPT ![i] = @ + 1]
    /\ UNCHANGED <<pc, engine, vertices, tile_length, threads, input, k, phase, Wkk,
                   run, edges, edge, gi, ret, mainVars>>

\* The end of one of the three parallel regions of block index k: the
\* threads wait for each other; after the third, k is incremented.
MainBlockedBarrier ==
    /\ pc = "main" /\ mpc = "blocked" /\ phase \in {"row", "col", "upd"}
    /\ \A t \in DOMAIN tpos :
           tpos[t] = TaskLen(phase, vertices \div tile_length, k, t)
    /\ phase' = (IF phase = "row" THEN "col"
                 ELSE IF phase = "col" THEN "upd" ELSE "diag")
    /\ k' = IF phase = "upd" THEN k + 1 ELSE k
    /\ Wkk' = IF phase = "upd" THEN NoBlock ELSE Wkk
    /\ tpos' = [t \in DOMAIN tpos |-> 0]
    /\ UNCHANGED <<pc, engine, vertices, tile_length, threads, input, graph, tbuf, run,
                   edges, edge, gi, ret, mainVars>>

\* Lines 164-167 (and 209, 289): blocked_floyd_warshall has returned (its loop over k is
\* over, at once when B = 0), the pair is recorded.
MainBlockedDone ==
    /\ pc = "main" /\ mpc = "blocked" /\ phase = "diag"
    /\ ~(k < vertices \div tile_length)
    /\ timestamps' = Append(timestamps, "Optimized time")
    /\ mpc' = "report"
    /\ UNCHANGED <<pc, engine, vertices, tile_length, threads, input, graph, k, phase,
                   tpos, tbuf, Wkk, run, edges, edge, gi, ret, args, max_threads,
                   omp_calls, exit_status>>

\* Lines 170-181: the report is printed and main returns 0.
MainReturn ==
    /\ pc = "main" /\ mpc = "report"
    /\ mpc' = "exited"
    /\ exit_status' = 0
    /\ UNCHANGED <<pc, engine, vertices, tile_length, threads, input, graph, k, phase,
                   tpos, tbuf, Wkk, run, edges, edge, gi, ret, args, max_threads,
                   omp_calls, timestamps>>

NextMain ==
    \/ MainParse
    \/ MainConfigure
    \/ MainMode
    \/ MainGenerate
    \/ GenEntry
    \/ \E v1 \in 0..(vertices - 1), v2 \in 0..(vertices - 1) : GenDraw(v1, v2)
    \/ GenMark
    \/ MainGenerated
    \/ MainSequential
    \/ MainNaive
    \/ \E t \in DOMAIN tpos : MainNaiveStep(t)
    \/ MainNaiveBarrier
    \/ MainNaiveDone
    \/ MainBlocked
    \/ MainBlockedDiag
    \/ \E t \in DOMAIN tpos : MainRowLoad(t)
    \/ \E t \in DOMAIN tpos : MainRowStore(t)
    \/ \E t \in DOMAIN tpos : MainColLoad(t)
    \/ \E t \in DOMAIN tpos : MainColStore(t)
    \/ \E t \in DOMAIN tpos : MainUpdLoad(t)
    \/ \E t \in DOMAIN tpos : MainUpdStore(t)
    \/ MainBlockedBarrier
    \/ MainBlockedDone
    \/ MainReturn

SpecMain == InitMain /\ [][NextMain]_vars

\* ------------------------------------------------------------ properties
Done == pc = "done"

\* PathsUpTo(g, n, len)[i*n+j]: the total weights of the directed paths from
\* i to j of at most len edges in the DenseGraph g, whose entries equal to
\* INF are absent edges.  A lightest path visits no vertex twice, so n-1
\* edges suffice for the minimum.
SetMin(S) == CHOOSE x \in S : \A y \in S : x <= y

ExtendPaths(d, g, n) ==
    [p \in 0..(n * n - 1) |->
        LET i == p \div n
            j == p % n
        IN  d[p] \cup
            UNION {{w + g[m * n + j] : w \in d[i * n + m]} :
                      m \in {x \in 0..(n - 1) : x # j /\ g[x * n + j] # INF}}]

RECURSIVE PathsUpTo(_, _, _)
PathsUpTo(g, n, len) ==
    IF len = 0 THEN [p \in 0..(n * n - 1) |-> IF p \div n = p % n THEN {0} ELSE {}]
    ELSE ExtendPaths(PathsUpTo(g, n, len - 1), g, n)

PathWeights(g, n) == PathsUpTo(g, n, n - 1)

\* The matrix Floyd-Warshall is to produce: the least path weight, INF
\* exactly where no path exists.
IsShortestPaths(res, g, n) ==
    LET d == PathWeights(g, n)
    IN  \A p \in 0..(n * n - 1) :
            /\ res[p] = (IF d[p] = {} THEN INF ELSE SetMin(d[p]))
            /\ (res[p] = INF) <=> (d[p] = {})

\* Every pair joined by a path is joined by one lighter than the sentinel.
BelowSentinel(g, n) ==
    LET d == PathWeights(g, n)
    IN  \A p \in 0..(n * n - 1) : d[p] # {} => SetMin(d[p]) < INF

\* C1: the blocked engine, for every block size dividing n and under every
\* interleaving of its tasks, ends with the matrix serial_floyd_warshall
\* computes from the same input.
BlockedMatchesSerial ==
    (Done /\ engine = "blocked") =>
        graph = serial_floyd_warshall(input, vertices)

BlockedMatchesSerialWitness ==
    /\ Done /\ engine = "blocked" /\ run = 1
    /\ vertices = 4 /\ tile_length = 2 /\ threads = 2
    /\ input[0 * 4 + 3] = INF /\ graph[0 * 4 + 3] = 3

\* C2: the naive engine, for every team size and every interleaving of the
\* (i,j) updates of an iteration, ends with the matrix the serial engine
\* computes from the same input.
NaiveMatchesSerial ==
    (Done /\ engine = "naive") =>
        graph = serial_floyd_warshall(input, vertices)

NaiveMatchesSerialWitness ==
    /\ Done /\ engine = "naive" /\ run = 1
    /\ vertices = 3 /\ threads = 2
    /\ input[0 * 3 + 2] = INF - 1 /\ graph[0 * 3 + 2] = 2

\* C3: determinism: whatever the team size and the schedule, a parallel
\* engine ends with the matrix its own code computes with every loop run in
\* index order by one thread.
Deterministic ==
    Done =>
        /\ engine = "naive" => graph = naive_floyd_warshall(input, vertices)
        /\ engine = "blocked" =>
               graph = blocked_floyd_warshall(input, vertices, tile_length)

DeterministicWitness ==
    /\ Done /\ engine = "blocked" /\ run = 1
    /\ vertices = 3 /\ tile_length = 1 /\ threads = 2
    /\ input[2 * 3 + 0] = INF /\ graph[2 * 3 + 0] = 2

\* C4 as claimed: on every DenseGraph with diagonal 0 and non-negative
\* weights the serial engine ends with the shortest-path weights, INF exactly
\* where no path exists.
SerialShortestPaths ==
    (Done /\ engine = "serial") => IsShortestPaths(graph, input, vertices)

\* C4 amended: the same, for the graphs in which every pair joined by a path
\* is joined by one of weight below the sentinel.
SerialShortestPathsBelowSentinel ==
    (Done /\ engine = "serial" /\ BelowSentinel(input, vertices)) =>
        IsShortestPaths(graph, input, vertices)

SerialShortestPathsWitness ==
    /\ Done /\ engine = "serial" /\ run = 1
    /\ vertices = 3
    /\ BelowSentinel(input, 3)
    /\ input[0 * 3 + 2] = INF - 1 /\ graph[0 * 3 + 2] = 2
    /\ graph[2 * 3 + 0] = INF

\* C5: when an engine has returned, dist[i][j] <= dist[i][m] + dist[m][j]
\* for all i, j, m with dist[i][m] and dist[m][j] not the sentinel.
TriangleInequality ==
    Done =>
        \A i \in 0..(vertices - 1), j \in 0..(vertices - 1), m \in 0..(vertices - 1) :
            (graph[i * vertices + m] # INF /\ graph[m * vertices + j] # INF) =>
                graph[i * vertices + j] <= graph[i * vertices + m] + graph[m * vertices + j]

TriangleInequalityWitness ==
    /\ Done /\ engine = "blocked" /\ run = 1
    /\ vertices = 4 /\ tile_length = 2
    /\ input[1 * 4 + 2] = INF
    /\ graph[1 * 4 + 0] = 1 /\ graph[0 * 4 + 2] = 1 /\ graph[1 * 4 + 2] = 2

\* C6: an engine called on the matrix it has produced changes no entry.
Idempotent ==
    (Done /\ run = 2) => graph = input

IdempotentWitness ==
    /\ Done /\ run = 2 /\ engine = "blocked"
    /\ vertices = 4 /\ tile_length = 2
    /\ graph[0 * 4 + 3] = 3

\* C7: every diagonal entry is 0 in every state of every engine run, the
\* states between two writes of a run included.
DiagonalZero ==
    \A i \in 0..(vertices - 1) : graph[i * vertices + i] = 0

DiagonalZeroWitness ==
    /\ pc = "run" /\ engine = "blocked" /\ phase = "row" /\ k = 1
    /\ vertices = 4 /\ tile_length = 2
    /\ input[2 * 4 + 3] = 1 /\ input[3 * 4 + 2] = 1
    /\ graph # input

\* C8: scenario A: every engine, and the blocked engine for every block size,
\* ends with dist[0][3] = 3 and dist[3][0] the sentinel.
ScenarioA ==
    Done => (graph[0 * 4 + 3] = 3 /\ graph[3 * 4 + 0] = INF)

ScenarioAWitness ==
    /\ Done /\ engine = "blocked" /\ tile_length = 1 /\ threads = 2 /\ run = 1
    /\ input = ScenarioGraph
    /\ graph[0 * 4 + 3] = 3

\* C9: generate_linear_graph returns -1 exactly when edges exceeds
\* vertices * (vertices - 1), and 1 otherwise.
GenerationFailsIff ==
    pc = "gen_done" =>
        /\ (ret = -1) <=> (edges > vertices * (vertices - 1))
        /\ (ret = 1) <=> (edges <= vertices * (vertices - 1))

GenerationFailsIffWitness ==
    /\ pc = "gen_done" /\ vertices = 3
    /\ edges = 3 * (3 - 1) /\ ret = 1

\* C10: when generate_linear_graph returns 1, whatever the buffer held, the
\* diagonal is 0, exactly edges off-diagonal entries are 1 and every other
\* off-diagonal entry is the sentinel.
GeneratedGraphShape ==
    (pc = "gen_done" /\ ret = 1) =>
        /\ \A i \in 0..(vertices - 1) : graph[i * vertices + i] = 0
        /\ Cardinality({p \in OffDiag(vertices) : graph[p] = 1}) = edges
        /\ \A p \in OffDiag(vertices) : graph[p] # 1 => graph[p] = INF

\* The number of engine flags set on the command line.
FlagCount ==
    (IF args.run_sequential THEN 1 ELSE 0)
    + (IF args.run_naive_parallel THEN 1 ELSE 0)
    + (IF args.run_block_parallel THEN 1 ELSE 0)

\* C11 as claimed, for the command lines the parse accepts: when
\* generate_linear_graph has failed, main returns 1 and runs no engine; main
\* returns 0 only when the generation succeeded.
GenerationFailureExits ==
    (mpc = "exited" /\ args.parse = "ok") =>
        /\ ret = -1 => (exit_status = 1 /\ engine = "none" /\ timestamps = <<>>)
        /\ exit_status = 0 => ret = 1

\* C12 as claimed, for the command lines the parse accepts: with no engine
\* flag or with two or more, main returns 1 and runs no engine; an engine
\* runs only when exactly one flag is set.
ExactlyOneEngineFlag ==
    /\ engine # "none" => FlagCount = 1
    /\ (mpc = "exited" /\ args.parse = "ok" /\ FlagCount # 1) =>
           (exit_status = 1 /\ engine = "none")

\* C13 as claimed, for the command lines the parse accepts: with the blocked
\* engine selected, a tile length that exceeds the vertex count or does not
\* divide it makes main return 1, and blocked_floyd_warshall is only called
\* with 1 <= b <= n and n mod b = 0.
TileLengthValidated ==
    /\ engine = "blocked" =>
           (1 <= tile_length /\ tile_length <= vertices /\ vertices % tile_length = 0)
    /\ ( /\ mpc = "exited" /\ args.parse = "ok"
         /\ args.run_block_parallel /\ FlagCount = 1
         /\ (tile_length > vertices \/ vertices % tile_length # 0) ) =>
           (exit_status = 1 /\ engine = "none")

\* C14: the thread count handed to omp_set_num_threads is the smaller of the
\* requested count and omp_get_max_threads(): never above the maximum, the
\* requested count when that is within the maximum; the call is made once,
\* before any engine runs (and not at all when main returns from the parse).
BeforeClamp ==
    mpc \in {"parse", "configure"} \/ (mpc = "exited" /\ args.parse # "ok")

ThreadsClamped ==
    /\ BeforeClamp => (omp_calls = <<>> /\ engine = "none")
    /\ (mpc # "none" /\ ~BeforeClamp) =>
           /\ Len(omp_calls) = 1
           /\ omp_calls[1] <= max_threads
           /\ args.threads <= max_threads => omp_calls[1] = args.threads
           /\ args.threads > max_threads => omp_calls[1] = max_threads
           /\ threads = omp_calls[1]

ThreadsClampedWitness ==
    /\ mpc = "exited" /\ engine = "naive" /\ exit_status = 0
    /\ args.parse = "ok"
    /\ args.threads = 3 /\ max_threads = 2
    /\ omp_calls = <<2>>

\* The rows of thread t's chunk of the parallel loop over i.
ChunkRows(t, n, T) == ChunkLo(t, n, T)..(ChunkLo(t, n, T) + ChunkLen(t, n, T) - 1)

\* The chunks of the team share no row and leave none out, so that the
\* threads' write-sets in an iteration are disjoint.
NaiveChunksDisjoint ==
    engine = "naive" =>
        /\ \A t1 \in 0..(threads - 1), t2 \in 0..(threads - 1) :
               t1 # t2 => ChunkRows(t1, vertices, threads) \cap
                          ChunkRows(t2, vertices, threads) = {}
        /\ UNION {ChunkRows(t, vertices, threads) : t \in 0..(threads - 1)}
               = 0..(vertices - 1)

\* A step of thread t inside iteration k writes no entry of row k or column
\* k, and no entry but (i,j), its own position in its own chunk.
NaiveStepWrites ==
    (engine = "naive" /\ pc = "run" /\ k' = k /\ run' = run) =>
        LET n == vertices
        IN  /\ \A m \in 0..(n - 1) :
                   /\ graph'[k * n + m] = graph[k * n + m]
                   /\ graph'[m * n + k] = graph[m * n + k]
            /\ \A t \in DOMAIN tpos :
                   tpos'[t] # tpos[t] =>
                       LET i == ChunkLo(t, n, threads) + (tpos[t] \div n)
                           j == tpos[t] % n
                       IN  /\ i \in ChunkRows(t, n, threads)
                           /\ \A p \in DOMAIN graph :
                                  graph'[p] # graph[p] => p = i * n + j

\* C15: in the naive engine, during iteration k no entry of row k or column
\* k is written and no two threads write the same offset, so that every read
\* of dist[i][k] and dist[k][j] in iteration k returns the value the entry
\* had when the iteration began, whatever the interleaving.
NaiveReadsStable == []NaiveChunksDisjoint /\ [][NaiveStepWrites]_vars

NaiveReadsStableWitness ==
    /\ engine = "naive" /\ pc = "run" /\ run = 1
    /\ vertices = 3 /\ threads = 2 /\ k = 1
    /\ tpos[0] = 4 /\ tpos[1] = 2
    /\ graph[0 * 3 + 2] # input[0 * 3 + 2]
    /\ graph[2 * 3 + 0] # input[2 * 3 + 0]

\* The steps a task of the parallel loop of phase ph makes for block index K:
\* a load and a store per block, one block in the cross phase and B - 1 in
\* the update phase; none for the index K itself and none in the diagonal
\* phase, which the encountering thread executes alone.
StepsOfTask(ph, B, K, t) ==
    IF t = K \/ ph = "diag" THEN 0
    ELSE IF ph = "upd" THEN 2 * (B - 1)
    ELSE 2

\* While the diagonal phase is to run no task is under way, and once it has
\* run block (k,k) of the matrix is the refreshed diagonal block.
PhaseQuiescent ==
    (engine = "blocked" /\ pc = "run") =>
        /\ phase = "diag" =>
               \A t \in DOMAIN tpos : tpos[t] = 0 /\ tbuf[t] = NoBlock
        /\ phase \in {"row", "col", "upd"} =>
               ReadBlock(graph, vertices, tile_length, k, k) = Wkk

\* The phase or the block index changes only when every task of the phase
\* has completed, and then to the next phase in the order diagonal, row
\* blocks, column blocks, update, diagonal of k + 1; tasks make steps in
\* the three parallel phases only.
PhaseStep ==
    (engine = "blocked" /\ pc = "run") =>
        LET B == vertices \div tile_length
        IN  /\ (phase' # phase \/ k' # k) =>
                   /\ \A t \in DOMAIN tpos :
                          /\ tpos[t] = StepsOfTask(phase, B, k, t)
                          /\ tbuf[t] = NoBlock
                   /\ <<phase, phase'>> \in {<<"diag", "row">>, <<"row", "col">>,
                                             <<"col", "upd">>, <<"upd", "diag">>}
                   /\ k' = (IF phase = "upd" THEN k + 1 ELSE k)
                   /\ phase = "diag" =>
                          ReadBlock(graph', vertices, tile_length, k, k) = Wkk'
            /\ (tpos' # tpos /\ phase' = phase /\ k' = k) =>
                   phase \in {"row", "col", "upd"}

\* C16: in the blocked engine the events of a block index K are ordered by
\* phase: block (K,K) is written back before a cross-phase task starts, every
\* row-block and column-block task completes before an update task starts,
\* and every update task completes before the diagonal phase of K + 1.
PhasesOrdered == []PhaseQuiescent /\ [][PhaseStep]_vars

PhasesOrderedWitness ==
    /\ engine = "blocked" /\ pc = "run" /\ run = 1
    /\ vertices = 3 /\ tile_length = 1 /\ threads = 2
    /\ k = 1 /\ phase = "upd"
    /\ tpos[0] = 3 /\ tpos[2] = 1
    /\ graph # input

\* The offsets of block (I,J) in the flat matrix.
BlockOffsets(n, b, I, J) ==
    {block_idx(I * b + x, J * b + y, n) : x \in 0..(b - 1), y \in 0..(b - 1)}

\* The block the cross-phase task t works on: (k,t) in the loop over the row
\* blocks, (t,k) in the loop over the column blocks.
CrossBlock(ph, K, t) == IF ph = "row" THEN <<K, t>> ELSE <<t, K>>

\* The blocks of the cross-phase tasks share no offset with each other nor
\* with block (k,k); and the copy a task has relaxed is the one it would
\* compute from the matrix as it is now, whatever the other tasks have
\* written since.
CrossDisjoint ==
    (engine = "blocked" /\ pc = "run" /\ phase \in {"row", "col"}) =>
        LET n == vertices
            b == tile_length
            Off(t) == BlockOffsets(n, b, CrossBlock(phase, k, t)[1],
                                   CrossBlock(phase, k, t)[2])
        IN  /\ \A t \in DOMAIN tpos, u \in DOMAIN tpos :
                   (t # k /\ u # k /\ t # u) => Off(t) \cap Off(u) = {}
            /\ \A t \in DOMAIN tpos :
                   t # k => Off(t) \cap BlockOffsets(n, b, k, k) = {}
            /\ \A t \in DOMAIN tpos :
                   tpos[t] = 1 =>
                       tbuf[t] = (IF phase = "row"
                                  THEN RowBlock(graph, n, b, k, t, Wkk)
                                  ELSE ColBlock(graph, n, b, k, t, Wkk))

\* A step of task t in the cross phase leaves the diagonal buffer alone and
\* changes the matrix inside the task's own block only.
CrossStep ==
    (engine = "blocked" /\ pc = "run" /\ phase \in {"row", "col"} /\ phase' = phase) =>
        /\ Wkk' = Wkk
        /\ \A t \in DOMAIN tpos :
               tpos'[t] # tpos[t] =>
                   \A p \in DOMAIN graph :
                       graph'[p] # graph[p] =>
                           p \in BlockOffsets(vertices, tile_length,
                                              CrossBlock(phase, k, t)[1],
                                              CrossBlock(phase, k, t)[2])

\* C17: in the cross phase for block index K the tasks of different J have
\* disjoint write-sets and none reads what another writes: the row task for
\* J touches block (K,J) only, the column task for J block (J,K) only, and
\* the refreshed diagonal block is written by no task.
CrossTasksIndependent == []CrossDisjoint /\ [][CrossStep]_vars

\* The task of row block (0,1) has written a shortened entry back while
\* the task of row block (0,2) holds a relaxed copy not yet written.
CrossTasksIndependentWitness ==
    /\ engine = "blocked" /\ pc = "run"
    /\ vertices = 6 /\ tile_length = 2 /\ threads = 2
    /\ k = 0 /\ phase = "row"
    /\ tpos[1] = 2 /\ tpos[2] = 1
    /\ input[0 * 6 + 2] = INF /\ graph[0 * 6 + 2] = 2
    /\ tbuf[2] # ReadBlock(graph, 6, 2, 0, 2)

\* The block the update task i works on next, or has loaded.
UpdColumn(K, pos) == NthOther(K, pos \div 2)

\* The blocks of the update tasks share no offset; and the copy a task has
\* relaxed is the one it would compute from the matrix as it is now.
UpdDisjoint ==
    (engine = "blocked" /\ pc = "run" /\ phase = "upd") =>
        LET n == vertices
            b == tile_length
            Others == {t \in DOMAIN tpos : t # k}
        IN  /\ \A i1 \in Others, j1 \in Others, i2 \in Others, j2 \in Others :
                   <<i1, j1>> # <<i2, j2>> =>
                       BlockOffsets(n, b, i1, j1) \cap BlockOffsets(n, b, i2, j2) = {}
            /\ \A t \in Others :
                   tpos[t] % 2 = 1 =>
                       tbuf[t] = UpdBlock(graph, n, b, k, t, UpdColumn(k, tpos[t]))

\* A step of task i in the update phase changes the matrix inside block
\* (i,j) only, i and j other than k; the blocks of block row k and of block
\* column k stay as the cross phase left them.
UpdStep ==
    (engine = "blocked" /\ pc = "run" /\ phase = "upd" /\ phase' = phase) =>
        LET n == vertices
            b == tile_length
        IN  /\ \A t \in DOMAIN tpos :
                   tpos'[t] # tpos[t] =>
                       /\ t # k /\ UpdColumn(k, tpos[t]) # k
                       /\ \A p \in DOMAIN graph :
                              graph'[p] # graph[p] =>
                                  p \in BlockOffsets(n, b, t, UpdColumn(k, tpos[t]))
            /\ \A t \in DOMAIN tpos :
                   /\ ReadBlock(graph', n, b, t, k) = ReadBlock(graph, n, b, t, k)
                   /\ ReadBlock(graph', n, b, k, t) = ReadBlock(graph, n, b, k, t)

\* C18: in the update phase for block index K each task (I,J) writes block
\* (I,J) only, so that distinct tasks write disjoint sets, and the operand
\* blocks (I,K) and (K,J) are written by no update task: every task reads
\* them as the cross phase left them.
UpdateTasksIndependent == []UpdDisjoint /\ [][UpdStep]_vars

\* The task of block row 1 has written a shortened entry of block (1,1)
\* back while the task of block row 2 holds a relaxed copy of block (2,1).
UpdateTasksIndependentWitness ==
    /\ engine = "blocked" /\ pc = "run"
    /\ vertices = 6 /\ tile_length = 2 /\ threads = 2
    /\ k = 0 /\ phase = "upd"
    /\ tpos[1] = 2 /\ tpos[2] = 1
    /\ input[2 * 6 + 3] = INF /\ graph[2 * 6 + 3] = 2
    /\ tbuf[2] # ReadBlock(graph, 6, 2, 2, 1)

\* The block relaxation run in place on a row block: floyd(Wkj, Wkk, Wkj, b),
\* the reads of the right operand seeing the writes made so far.
RowBlockInPlace(blk, wkk, b) == floyd(blk, wkk, blk, b, FALSE, TRUE)

\* The same on a column block: floyd(Wik, Wik, Wkk, b).
ColBlockInPlace(blk, wkk, b) == floyd(blk, blk, wkk, b, TRUE, FALSE)

\* The write-back of a cross-phase task leaves in the matrix what the
\* relaxation in place makes of the block as it was.
CrossWriteBack ==
    (engine = "blocked" /\ pc = "run" /\ phase \in {"row", "col"} /\ phase' = phase) =>
        \A t \in DOMAIN tpos :
            (tpos[t] = 1 /\ tpos'[t] = 2) =>
                LET n == vertices
                    b == tile_length
                IN  IF phase = "row"
                    THEN ReadBlock(graph', n, b, k, t) =
                             RowBlockInPlace(ReadBlock(graph, n, b, k, t), Wkk, b)
                    ELSE ReadBlock(graph', n, b, t, k) =
                             ColBlockInPlace(ReadBlock(graph, n, b, t, k), Wkk, b)

\* C19: the block written back for row block (K,J) is the block relaxed in
\* place with the refreshed diagonal block as left operand and itself as
\* right operand, and the block written back for column block (J,K) is the
\* block relaxed in place with itself as left operand and the refreshed
\* diagonal block as right operand, although the code relaxes a copy against
\* an unmodified snapshot.
CrossEqualsInPlace == [][CrossWriteBack]_vars

\* Row block (0,1) written back with dist[2][3] = 3 along 2 -> 1 -> 0 -> 3:
\* in place, the entry is reached through dist[1][3], written one local k
\* earlier; against the snapshot, through the refreshed dist[2][0].
CrossEqualsInPlaceWitness ==
    /\ engine = "blocked" /\ pc = "run"
    /\ vertices = 6 /\ tile_length = 3
    /\ k = 0 /\ phase = "row" /\ tpos[1] = 2
    /\ input[2 * 6 + 3] = INF /\ input[1 * 6 + 3] = INF /\ input[2 * 6 + 0] = INF
    /\ graph[2 * 6 + 3] = 3 /\ graph[1 * 6 + 3] = 2

\* blk1 satisfies the triangle inequality over its entries other than INF.
BlockTriangle(blk1, b) ==
    \A i \in 0..(b - 1), j \in 0..(b - 1), m \in 0..(b - 1) :
        (blk1[block_idx(i, m, b)] # INF /\ blk1[block_idx(m, j, b)] # INF) =>
            blk1[block_idx(i, j, b)] <=
                blk1[block_idx(i, m, b)] + blk1[block_idx(m, j, b)]

\* The step of the diagonal phase leaves every entry outside block (k,k) as
\* it was.
DiagFrame ==
    \A p \in DOMAIN graph :
        p \notin BlockOffsets(vertices, tile_length, k, k) => graph'[p] = graph[p]

\* The step of the diagonal phase.
DiagPhaseStep == engine = "blocked" /\ pc = "run" /\ phase = "diag" /\ phase' = "row"

\* C20 as claimed: the diagonal phase for K leaves block (K,K) a solved
\* b-vertex shortest-path problem over the values the block held: the
\* triangle inequality holds over its entries other than the sentinel, each
\* entry is the least weight of a path inside the block (the sentinel where
\* there is none), and no entry outside the block is changed.
DiagSolvedStep ==
    DiagPhaseStep =>
        LET b == tile_length
            blk0 == ReadBlock(graph, vertices, b, k, k)
            blk1 == ReadBlock(graph', vertices, b, k, k)
            d == PathWeights(blk0, b)
        IN  /\ BlockTriangle(blk1, b)
            /\ \A p \in 0..(b * b - 1) :
                   blk1[p] = (IF d[p] = {} THEN INF ELSE SetMin(d[p]))
            /\ DiagFrame

DiagSolved == [][DiagSolvedStep]_vars

\* C20 amended: the same, each entry being the smaller of the sentinel and
\* the least weight of a path inside the block.
DiagSolvedCappedStep ==
    DiagPhaseStep =>
        LET b == tile_length
            blk0 == ReadBlock(graph, vertices, b, k, k)
            blk1 == ReadBlock(graph', vertices, b, k, k)
            d == PathWeights(blk0, b)
        IN  /\ BlockTriangle(blk1, b)
            /\ \A p \in 0..(b * b - 1) :
                   blk1[p] = (IF d[p] = {} \/ SetMin(d[p] \cup {INF}) = INF THEN INF
                              ELSE SetMin(d[p]))
            /\ DiagFrame

DiagSolvedCapped == [][DiagSolvedCappedStep]_vars

\* The diagonal phase of a 4-vertex block has found dist[0][3] = 3 along
\* 0 -> 1 -> 2 -> 3.
DiagSolvedWitness ==
    /\ engine = "blocked" /\ pc = "run" /\ run = 1
    /\ vertices = 4 /\ tile_length = 4
    /\ k = 0 /\ phase = "row"
    /\ input[0 * 4 + 3] = INF /\ graph[0 * 4 + 3] = 3
    /\ Wkk = graph

\* ------------------------------------------- the kernels as functions
\* The kernels of kernels.cpp and of main.cpp take any vector of int.  Each
\* is called once on a matrix with diagonal 0 whose other entries are drawn
\* from a negative weight, 0, a small weight, the largest value below the
\* sentinel and the sentinel; and, to have blocks of two vertices, on the
\* unit-weight graphs of MaxTiledN vertices.
KernelWeights == {0 - 1, 0, 1, INF - 1, INF}

KernelGraphs(n) ==
    {[p \in 0..(n * n - 1) |-> IF p \in OffDiag(n) THEN f[p] ELSE 0] :
        f \in [OffDiag(n) -> KernelWeights]}

InitKernels ==
    \E n \in {MaxN, MaxTiledN} :
        \E b \in Divisors(n),
           g \in (IF n = MaxN THEN KernelGraphs(n) ELSE UnitGraphs(n)) :
            /\ pc = "call"
            /\ engine = "none"
            /\ vertices = n
            /\ tile_length = b
            /\ threads = 1
            /\ input = g
            /\ graph = g
            /\ k = 0
            /\ run = 1
            /\ Wkk = NoBlock
            /\ phase = "none"
            /\ tpos = [t \in {0} |-> 0]
            /\ tbuf = [t \in {0} |-> NoBlock]
            /\ edges = 0
            /\ edge = <<>>
            /\ gi = 0
            /\ ret = 0
            /\ NoMain

\* kernels.cpp: blocked_floyd_warshall(graph, vertices, tile_length).
CallBlocked ==
    /\ pc = "call"
    /\ graph' = blocked_floyd_warshall(graph, vertices, tile_length)
    /\ engine' = "blocked"
    /\ pc' = "done"
    /\ UNCHANGED <<vertices, tile_length, threads, input, k, phase, tpos,
                   tbuf, Wkk, run, genVars>>

\* main.cpp: blocked_floyd_warshall(graph, vertices, tile_length).
CallMainBlocked ==
    /\ pc = "call"
    /\ graph' = main_blocked_floyd_warshall(graph, vertices, tile_length)
    /\ engine' = "main_blocked"
    /\ pc' = "done"
    /\ UNCHANGED <<vertices, tile_length, threads, input, k, phase, tpos,
                   tbuf, Wkk, run, genVars>>

\* kernels.cpp: serial_floyd_warshall(graph, vertices).
CallSerial ==
    /\ pc = "call"
    /\ graph' = serial_floyd_warshall(graph, vertices)
    /\ engine' = "serial"
    /\ pc' = "done"
    /\ UNCHANGED <<vertices, tile_length, threads, input, k, phase, tpos,
                   tbuf, Wkk, run, genVars>>

\* main.cpp: the loop nest written out in main.
CallMainNest ==
    /\ pc = "call"
    /\ graph' = MainLoopNest(graph, vertices)
    /\ engine' = "main_nest"
    /\ pc' = "done"
    /\ UNCHANGED <<vertices, tile_length, threads, input, k, phase, tpos,
                   tbuf, Wkk, run, genVars>>

NextKernels ==
    \/ CallBlocked
    \/ CallMainBlocked
    \/ CallSerial
    \/ CallMainNest

SpecKernels == InitKernels /\ [][NextKernels]_vars

\* AllPathsUpTo(g, n, len)[i*n+j]: the total weights of the walks from i to
\* j of at most len edges when every entry of g, the sentinel included, is
\* taken as the weight of an edge.
ExtendAllPaths(d, g, n) ==
    [p \in 0..(n * n - 1) |->
        LET i == p \div n
            j == p % n
        IN  d[p] \cup
            UNION {{w + g[m * n + j] : w \in d[i * n + m]} :
                      m \in {x \in 0..(n - 1) : x # j}}]

RECURSIVE AllPathsUpTo(_, _, _)
AllPathsUpTo(g, n, len) ==
    IF len = 0 THEN [p \in 0..(n * n - 1) |-> IF p \div n = p % n THEN {0} ELSE {}]
    ELSE ExtendAllPaths(AllPathsUpTo(g, n, len - 1), g, n)

\* No cycle of the graph has negative weight.
NoNegativeCycle(g, n) ==
    LET d == PathsUpTo(g, n, n)
    IN  \A i \in 0..(n - 1) : \A w \in d[i * n + i] : w >= 0

\* C21: main.cpp's blocked engine, whose floyd always forms A[i,k] + B[k,j],
\* treats the sentinel as the weight of an edge: on a graph without negative
\* cycle each entry of its result is the least weight of a walk in which a
\* sentinel entry counts as an edge of weight INF.  The result is therefore
\* never above the shortest-path distance, and it is below it (a finite
\* value for an unreachable pair) where a walk through a sentinel entry and
\* a negative weight is lighter than every real path.
UnguardedSentinelAsWeight ==
    (pc = "done" /\ engine = "main_blocked"
        /\ NoNegativeCycle(input, vertices)) =>
        LET d == PathWeights(input, vertices)
            a == AllPathsUpTo(input, vertices, vertices - 1)
        IN  \A p \in 0..(vertices * vertices - 1) :
                /\ graph[p] = SetMin(a[p])
                /\ graph[p] <= (IF d[p] = {} THEN INF ELSE SetMin(d[p]))

\* The edge 1 -> 2 of weight -1 and no edge into 1: vertex 2 is unreachable
\* from 0, and main.cpp's engine stores INF - 1 for the pair.
UnguardedSentinelAsWeightWitness ==
    /\ pc = "done" /\ engine = "main_blocked"
    /\ vertices = 3 /\ tile_length = 1
    /\ NoNegativeCycle(input, vertices)
    /\ input[0 * 3 + 1] = INF /\ input[0 * 3 + 2] = INF
    /\ input[1 * 3 + 2] = 0 - 1
    /\ PathWeights(input, vertices)[0 * 3 + 2] = {}
    /\ graph[0 * 3 + 2] = INF - 1

\* A valid DenseGraph: diagonal 0, every other entry a non-negative weight
\* not above the sentinel.
ValidDenseGraph(g, n) ==
    \A p \in 0..(n * n - 1) :
        /\ 0 <= g[p] /\ g[p] <= INF
        /\ (p \div n = p % n) => g[p] = 0

\* C25: on every DenseGraph with non-negative weights (2 * INF being within
\* the int range) main.cpp's unguarded blocked engine returns the matrix the
\* guarded blocked engine of kernels.cpp returns, and main.cpp's unguarded
\* loop nest returns the matrix the guarded serial and naive kernels return.
UnguardedMatchesGuarded ==
    (pc = "done" /\ ValidDenseGraph(input, vertices)) =>
        /\ IntAdd(INF, INF) = 2 * INF
        /\ (engine = "main_blocked") =>
               graph = blocked_floyd_warshall(input, vertices, tile_length)
        /\ (engine = "main_nest") =>
               /\ graph = serial_floyd_warshall(input, vertices)
               /\ graph = naive_floyd_warshall(input, vertices)

\* Blocks of two vertices, sentinel entries in the input, and a pair whose
\* distance the unguarded engine found through another block.
UnguardedMatchesGuardedWitness ==
    /\ pc = "done" /\ engine = "main_blocked"
    /\ vertices = 4 /\ tile_length = 2
    /\ ValidDenseGraph(input, vertices)
    /\ input[0 * 4 + 3] = INF /\ input[3 * 4 + 0] = INF
    /\ graph[0 * 4 + 3] = 3 /\ graph[3 * 4 + 0] = INF

\* The values a DenseGraph entry may hold.
EntryInRange(v) == v = INF \/ (0 <= v /\ v < INF)

BlockInRange(blk) == \A q \in DOMAIN blk : EntryInRange(blk[q])

\* Every entry of the matrix, of the diagonal block kept for the cross phase
\* and of the buffers of the tasks under way is the sentinel or a weight.
EntriesInRange ==
    /\ BlockInRange(graph)
    /\ BlockInRange(Wkk)
    /\ \A t \in DOMAIN tbuf : BlockInRange(tbuf[t])

\* A step stores no sum that has the sentinel as an operand: such a sum is
\* INF or more, and every entry a step changes is below INF afterwards.
NoSentinelSumStored ==
    \A p \in DOMAIN graph :
        graph'[p] # graph[p] => (0 <= graph'[p] /\ graph'[p] < INF)

\* C22: from a valid DenseGraph, in every state of every engine of
\* kernels.cpp, between the writes of the tasks included, every entry is the
\* sentinel or a non-negative integer strictly below it, and no write leaves
\* in an entry a sum formed with a sentinel operand.
DenseGraphInvariant == []EntriesInRange /\ [][NoSentinelSumStored]_vars

\* The blocked engine between two writes of the update phase: one task has
\* written its block, another holds its relaxed copy; the matrix still has
\* sentinel entries and an entry lowered below the sentinel.
DenseGraphInvariantWitness ==
    /\ pc = "run" /\ engine = "blocked" /\ phase = "upd"
    /\ \E t \in DOMAIN tbuf : tbuf[t] # NoBlock
    /\ \E t \in DOMAIN tpos : tpos[t] = 2
    /\ \E p \in DOMAIN graph : graph[p] = INF
    /\ \E p \in DOMAIN graph : graph[p] = INF - 1
    /\ \E p \in DOMAIN graph : input[p] = INF /\ graph[p] = 2

\* The engine the if / else-if chain of main selects, and its label.
SelectedEngine ==
    IF args.run_sequential THEN "serial"
    ELSE IF args.run_naive_parallel THEN "naive"
    ELSE "blocked"

LabelOf(e) ==
    IF e = "serial" THEN "Sequential time"
    ELSE IF e = "naive" THEN "Naive time"
    ELSE "Optimized time"

\* Past the engine stage: one engine has run and one pair is recorded.
PastEngineStage ==
    mpc = "report" \/ (mpc = "exited" /\ args.parse = "ok" /\ exit_status = 0)

\* In the engine stage, inside the naive or the blocked branch.
InEngine == mpc \in {"naive", "blocked"}

OneEngineRan ==
    IF mpc \in {"parse", "configure", "mode", "generate", "generating", "engines"}
           \/ (mpc = "exited" /\ (args.parse # "ok" \/ exit_status # 0))
    THEN engine = "none" /\ timestamps = <<>>
    ELSE IF InEngine
    THEN /\ FlagCount >= 1
         /\ engine = SelectedEngine
         /\ engine = mpc
         /\ timestamps = <<>>
    ELSE /\ PastEngineStage
         /\ FlagCount >= 1
         /\ engine = SelectedEngine
         /\ timestamps = <<LabelOf(engine)>>

\* Once an engine has run nothing writes the graph or the list of pairs; the
\* engine stage is left for one engine only, and the steps of that engine
\* keep it until its one pair is recorded.
NoSecondEngine ==
    /\ PastEngineStage => (graph' = graph /\ engine' = engine
                            /\ timestamps' = timestamps)
    /\ mpc = "engines" =>
           /\ engine' \in Engines
           /\ \/ mpc' = "report" /\ Len(timestamps') = 1
              \/ mpc' = engine' /\ timestamps' = <<>> /\ graph' = graph
    /\ InEngine =>
           /\ engine' = engine
           /\ \/ mpc' = mpc /\ timestamps' = timestamps
              \/ mpc' = "report" /\ timestamps' = <<LabelOf(engine)>> /\ graph' = graph

\* C23: in every run of main that reaches the engine stage, whatever the
\* combination of the three flags with at least one set, exactly one of the
\* sequential, naive-parallel and blocked-parallel relaxations is executed
\* (the first whose flag is set, in that order) and exactly one
\* (label, elapsed-time) pair is recorded.
ExactlyOneEngineRuns == []OneEngineRan /\ [][NoSecondEngine]_vars

\* All three flags set: the sequential relaxation alone has run (it has
\* lowered the one 1 the generator had stored, 0 + 0 being smaller), and one
\* pair is recorded.
ExactlyOneEngineRunsWitness ==
    /\ mpc = "exited" /\ exit_status = 0 /\ args.parse = "ok"
    /\ args.run_sequential /\ args.run_naive_parallel /\ args.run_block_parallel
    /\ engine = "serial"
    /\ timestamps = <<"Sequential time">>
    /\ vertices = 3 /\ edges = 1 /\ ret = 1
    /\ \A p \in DOMAIN graph : graph[p] = 0

\* The largest and the least value held by a matrix or a block.
LargestEntry(blk) == CHOOSE x \in {blk[q] : q \in DOMAIN blk} :
                        \A q \in DOMAIN blk : blk[q] <= x

LeastEntry(blk) == CHOOSE x \in {blk[q] : q \in DOMAIN blk} :
                      \A q \in DOMAIN blk : x <= blk[q]

\* Whatever two entries of blk a kernel adds, tested against INF or not, the
\* sum is in 0..2*INF and the int addition returns it without wrapping.
SumsBounded(blk) ==
    blk # NoBlock =>
        /\ LargestEntry(blk) + LargestEntry(blk) <= 2 * INF
        /\ LeastEntry(blk) + LeastEntry(blk) >= 0
        /\ IntAdd(LargestEntry(blk), LargestEntry(blk))
               = LargestEntry(blk) + LargestEntry(blk)
        /\ IntAdd(LeastEntry(blk), LeastEntry(blk))
               = LeastEntry(blk) + LeastEntry(blk)

\* C24: in every state of every engine of kernels.cpp on a valid DenseGraph
\* the operands a kernel may add (the entries of the matrix for the serial
\* and naive kernels, which add before they test against INF; the entries of
\* the block copies for floyd) sum to at most 2 * INF, which is within the
\* int range, so that no addition overflows.
SumsWithinInt ==
    /\ 2 * INF <= IntMax
    /\ SumsBounded(graph)
    /\ SumsBounded(Wkk)
    /\ \A t \in DOMAIN tbuf : SumsBounded(tbuf[t])

\* The serial kernel about to add two sentinel operands: the sum 2 * INF is
\* formed in the comparison before the operands are tested.
SumsWithinIntWitness ==
    /\ pc = "run" /\ engine = "serial" /\ vertices = 3
    /\ k = 1 /\ tpos[0] = 9 + 2
    /\ graph[0 * 3 + 1] = INF /\ graph[1 * 3 + 2] = INF
    /\ IntAdd(graph[0 * 3 + 1], graph[1 * 3 + 2]) = 2 * INF
    /\ graph[0 * 3 + 2] = INF - 1

\* Every entry other than the sentinel is the weight of a directed path of
\* the input graph from its row vertex to its column vertex: the entry of
\* the input (the edge itself; on the diagonal the empty path), or the
\* weight of a longer path.
EntriesArePaths ==
    \A p \in DOMAIN graph :
        graph[p] # INF =>
            \/ graph[p] = input[p]
            \/ graph[p] \in PathWeights(input, vertices)[p]

NoEntryIncreases == \A p \in DOMAIN graph : graph'[p] <= graph[p]

\* C26: in every run of every engine of kernels.cpp on a valid DenseGraph,
\* under every interleaving, no step increases an entry, and in every state
\* each entry other than the sentinel is the total weight of a directed
\* path of the input graph between its two vertices: it is never below the
\* shortest distance, and the entry of an unreachable pair stays INF.
MonotoneSound == []EntriesArePaths /\ [][NoEntryIncreases]_vars

\* The naive engine in the middle of iteration k = 1: the entry (0,2) has
\* been lowered to the weight of the path 0 -> 1 -> 2, the entry (2,0) of an
\* unreachable pair is still the sentinel, and a thread has rows left.
MonotoneSoundWitness ==
    /\ pc = "run" /\ engine = "naive" /\ vertices = 3 /\ threads = 2
    /\ k = 1
    /\ \E t \in DOMAIN tpos : tpos[t] > 0 /\ tpos[t] < ChunkLen(t, vertices, threads) * vertices
    /\ input[0 * 3 + 2] = INF /\ graph[0 * 3 + 2] = 2
    /\ PathWeights(input, vertices)[2 * 3 + 0] = {}
    /\ graph[2 * 3 + 0] = INF

\* ------------------------------------- the blocked engine off its contract
\* blocked_floyd_warshall tests neither that b divides n nor that b <= n,
\* and main only logs a tile length above the vertex count: the engine is
\* entered with a block size in 2..n+1 that does not divide n, on every
\* DenseGraph of MaxN vertices and on the unit-weight graphs of RaggedN
\* vertices and at most RaggedEdges edges.
InitRagged ==
    \/ \E b \in {d \in 2..(MaxN + 1) : MaxN % d # 0},
          T \in 1..MaxThreads,
          g \in Graphs(MaxN) :
           Enter("blocked", MaxN, b, T, g, 1)
    \/ \E b \in {d \in 2..(RaggedN + 1) : RaggedN % d # 0},
          T \in {MaxThreads},
          e \in [1..RaggedEdges -> 0..(RaggedN * RaggedN - 1)] :
           Enter("blocked", RaggedN, b, T, PickedGraph(RaggedN, e), 1)

NextRagged ==
    \/ BlockedDiag
    \/ \E t \in DOMAIN tpos : RowLoad(t)
    \/ \E t \in DOMAIN tpos : RowStore(t)
    \/ \E t \in DOMAIN tpos : ColLoad(t)
    \/ \E t \in DOMAIN tpos : ColStore(t)
    \/ \E t \in DOMAIN tpos : UpdLoad(t)
    \/ \E t \in DOMAIN tpos : UpdStore(t)
    \/ BlockedBarrier

SpecRagged == InitRagged /\ [][NextRagged]_vars

\* The leading m rows and columns of the n x n matrix g, as an m x m matrix.
Leading(g, n, m) == [q \in 0..(m * m - 1) |-> g[(q \div m) * n + (q % m)]]

\* Every offset the engine computes for a block (I,J) with I, J < B lies in
\* the leading B*b rows and columns, hence inside the buffer.
BlocksInsideBuffer ==
    LET B == vertices \div tile_length
    IN  \A I, J \in 0..(B - 1) :
            \A x, y \in 0..(tile_length - 1) :
                /\ I * tile_length + x < B * tile_length
                /\ J * tile_length + y < B * tile_length
                /\ B * tile_length <= vertices
                /\ block_idx(I * tile_length + x, J * tile_length + y, vertices)
                       \in DOMAIN graph

\* C27: called with a block size that does not divide n, the blocked engine
\* of kernels.cpp works on B = n / b (rounded down) blocks per dimension:
\* in every state the entries of row or column B*b and beyond are those of
\* the input, with b > n the call returns at once with the matrix unchanged,
\* every block offset lies inside the n*n buffer, and on return the leading
\* B*b rows and columns hold what the engine computes on them alone.
RaggedFrame ==
    LET n == vertices
        B == vertices \div tile_length
        lead == (vertices \div tile_length) * tile_length
    IN  /\ \A p \in DOMAIN graph :
               (p \div n >= lead \/ p % n >= lead) => graph[p] = input[p]
        /\ B = 0 => (pc = "done" /\ graph = input)
        /\ DOMAIN tpos = 0..(B - 1)
        /\ BlocksInsideBuffer
        /\ pc = "done" =>
               Leading(graph, n, lead)
                   = blocked_floyd_warshall(Leading(input, n, lead), lead,
                                            tile_length)

\* 5 vertices in blocks of 2: the path 0 -> 1 -> 2 inside the leading 4 rows
\* and columns has been found, while the entry (4,2) in the last row keeps
\* the sentinel although 4 -> 1 -> 2 is a path.
RaggedFrameWitness ==
    /\ pc = "done" /\ vertices = 5 /\ tile_length = 2
    /\ input[0 * 5 + 1] = 1 /\ input[1 * 5 + 2] = 1 /\ input[4 * 5 + 1] = 1
    /\ input[0 * 5 + 2] = INF /\ graph[0 * 5 + 2] = 2
    /\ graph[4 * 5 + 2] = INF

\* The first i entries of the edge list are accepted edges: pairwise
\* distinct, none a self-loop.
AcceptedEdges(ed, i) ==
    /\ \A a \in 0..(i - 1) : ed[a][1] # ed[a][2]
    /\ \A a, c \in 0..(i - 1) : a # c => ed[a] # ed[c]

EdgeLoopHead ==
    pc = "gen_loop" =>
        /\ 0 <= gi /\ gi <= edges
        /\ AcceptedEdges(edge, gi)

\* One iteration: the candidate is stored in slot i and no other slot is
\* written; a self-loop leaves i as it is; a candidate equal to an accepted
\* edge makes the scan decrement i once, so that i++ leaves i as it was and
\* the slot is drawn again; any other candidate is accepted.
EdgeLoopIteration ==
    (pc = "gen_loop" /\ pc' = "gen_loop" /\ gi < edges) =>
        LET cand == edge'[gi]
            dup == \E a \in 0..(gi - 1) : edge[a] = cand
        IN  /\ \A a \in 0..(gi - 1) : edge'[a] = edge[a]
            /\ DupScan(edge', gi, 0) = (IF dup THEN gi - 1 ELSE gi)
            /\ gi' = (IF cand[1] = cand[2] \/ dup THEN gi ELSE gi + 1)

\* C28: at the head of every iteration of the while loop of
\* generate_linear_graph 0 <= i <= E and the first i entries of the edge list
\* are pairwise distinct edges, none a self-loop; an iteration whose
\* candidate equals an accepted edge decrements i exactly once, so that the
\* slot is drawn again, and it overwrites no accepted edge.
EdgeLoopInvariant == []EdgeLoopHead /\ [][EdgeLoopIteration]_vars

\* Two edges accepted, and the third draw has repeated the first: i is still
\* 2 and slot 2 holds the rejected candidate.
EdgeLoopInvariantWitness ==
    /\ pc = "gen_loop" /\ vertices = 3 /\ edges = 4 /\ gi = 2
    /\ edge[0] = <<0, 1>> /\ edge[1] = <<2, 0>> /\ edge[2] = <<0, 1>>

\* ------------------------------------------ the generator, fair draws
\* rand() % vertices returning v1 and then v2 in one iteration.
FairDraw(v1, v2) ==
    /\ v1 < vertices /\ v2 < vertices
    /\ GenDraw(v1, v2)

\* generate_linear_graph runs on (no step of it waits for anything), and the
\* random source is fair: a pair whose draw would change the state of the
\* loop is not withheld for ever.
FairSpecGen ==
    /\ InitGen
    /\ [][NextGen]_vars
    /\ WF_vars(GenEntry)
    /\ WF_vars(GenMark)
    /\ \A v1, v2 \in 0..(MaxV - 1) : WF_vars(FairDraw(v1, v2))

\* C29: for every V >= 1 and every E with 0 <= E <= V*(V-1),
\* generate_linear_graph eventually returns (with 1) when every ordered pair
\* of vertices keeps being drawn; and with E = 0 it returns without a draw:
\* the edge list is empty and i stays 0.
GeneratorReturns ==
    /\ (edges <= vertices * (vertices - 1)) ~> (pc = "gen_done" /\ ret = 1)
    /\ [](edges = 0 => (gi = 0 /\ DOMAIN edge = {}))

\* Every ordered pair of 3 vertices was asked for, and the call has returned
\* with all 6 of them accepted.
GeneratorReturnsWitness ==
    /\ pc = "gen_done" /\ ret = 1
    /\ vertices = 3 /\ edges = 3 * (3 - 1) /\ gi = edges
    /\ \A p \in OffDiag(vertices) : graph[p] = 1

====
